---- MODULE Spec2Model ----
(***************************************************************************)
(* A model of the Confluence RAG pipeline: the page-tree walker            *)
(* (confluence_status.py), the scraper (app_confluence.py), the corpus     *)
(* builder and chunk-and-embed engine (utils/data_prep copy.py), and the   *)
(* vector index manager (utils/pinecone_logic.py), the ingest entry point  *)
(* (create_embeddings.py) and the query path (streamlit_app.py).           *)
(*                                                                         *)
(* Each component has its own specification (SpecChunk, SpecIndex,         *)
(* SpecUpsert, SpecWalk, SpecScrape, SpecFetch and SpecFetchLive for the   *)
(* page listing, SpecScraper for the scraper's main from the listing on,   *)
(* SpecCorpus, SpecIngest, SpecOverwrite, SpecQuery, and SpecRace for two  *)
(* requests in get_pinecone_index at once); the variables of the           *)
(* components a specification does not run stay at their idle values.      *)
(***************************************************************************)
EXTENDS Integers, Sequences, FiniteSets, TLC

VARIABLES
    \* chunk_text(text, max_chunk_size)
    text, max_chunk_size, chunks, chunkPc,
    \* the Pinecone service and the module-global client of pinecone_logic.py
    pinecone, svcIndexes, svcRecords, getLog, lastDelete,
    \* upsert_data(index, df)
    index, dfLen, rowI, prepped, upsertCalls, upsertOutcomes, upsertPc,
    \* build_page_tree_lines over the Confluence page graph
    pageChildren, callStack, lines, walkPc,
    \* the scraper's main(): DataFrame, loop position, CSV file
    sdf, scrapeI, scrapePc, csvFile, scrapeLog,
    \* the ingest: interchange file, DataFrame, embedding model, loop position
    csvRows, model_emb, overwrite, cdf, embedI, corpusPc, embedCalls,
    \* the query path: main(query) and initialize_pinecone with their locals
    queryPc, queryN, index_created, total_vectors, ingest, recordsAtStart,
    res, queryResult,
    \* fetch_all_pages(all_pages, start, limit) over a space of spacePages pages
    spacePages, all_pages, start, limit, fetchPc, fetchResult, listLog,
    \* requests that run get_pinecone_index at the same time
    callerPc, callerCreated, createLog

chunkVars  == <<text, max_chunk_size, chunks, chunkPc>>
indexVars  == <<pinecone, svcIndexes, svcRecords, getLog, lastDelete>>
upsertVars == <<index, dfLen, rowI, prepped, upsertCalls, upsertOutcomes, upsertPc>>
walkVars   == <<pageChildren, callStack, lines, walkPc>>
scrapeVars == <<sdf, scrapeI, scrapePc, csvFile, scrapeLog>>
corpusVars == <<csvRows, model_emb, overwrite, cdf, embedI, corpusPc, embedCalls>>
queryVars  == <<queryPc, queryN, index_created, total_vectors, ingest,
                recordsAtStart, res, queryResult>>
fetchVars  == <<spacePages, all_pages, start, limit, fetchPc, fetchResult, listLog>>
raceVars   == <<callerPc, callerCreated, createLog>>
vars == <<chunkVars, indexVars, upsertVars, walkVars, scrapeVars, corpusVars,
          queryVars, fetchVars, raceVars>>

(***************************************************************************)
(* General helpers.                                                        *)
(***************************************************************************)
Min(S) == CHOOSE x \in S : \A y \in S : x <= y

RECURSIVE SumSeq(_)
SumSeq(s) == IF s = <<>> THEN 0 ELSE Head(s) + SumSeq(Tail(s))

RECURSIVE Flatten(_)
Flatten(ss) ==
    IF ss = <<>> THEN <<>>
    ELSE IF Len(ss) = 1 THEN ss[1]
    ELSE LET h == Len(ss) \div 2
         IN  Flatten(SubSeq(ss, 1, h)) \o Flatten(SubSeq(ss, h + 1, Len(ss)))

SeqsUpTo(S, n) == UNION {[1..k -> S] : k \in 0..n}

(***************************************************************************)
(* Idle values of each component's variables.                              *)
(***************************************************************************)
\* create_embeddings.py line 10 and the default of PINECONE_INDEX_NAME.
IndexNames == {"big-data", "test1"}

IdleChunk ==
    /\ text = <<>>
    /\ max_chunk_size = 0
    /\ chunks = <<>>
    /\ chunkPc = "idle"

IdleIndex ==
    /\ pinecone = "None"
    /\ svcIndexes = [n \in IndexNames |-> 0]
    /\ svcRecords = [n \in IndexNames |-> {}]
    /\ getLog = [n \in IndexNames |-> <<>>]
    /\ lastDelete = <<>>

IdleUpsert ==
    /\ index = "None"
    /\ upsertOutcomes = <<>>
    /\ dfLen = 0
    /\ rowI = 0
    /\ prepped = <<>>
    /\ upsertCalls = <<>>
    /\ upsertPc = "idle"

IdleWalk ==
    /\ pageChildren = <<>>
    /\ callStack = <<>>
    /\ lines = <<>>
    /\ walkPc = "idle"

IdleScrape ==
    /\ sdf = <<>>
    /\ scrapeI = 0
    /\ scrapePc = "idle"
    /\ csvFile = <<>>
    /\ scrapeLog = <<>>

IdleCorpus ==
    /\ csvRows = <<>>
    /\ model_emb = "none"
    /\ overwrite = FALSE
    /\ cdf = <<>>
    /\ embedI = 0
    /\ corpusPc = "idle"
    /\ embedCalls = <<>>

IdleFetch ==
    /\ spacePages = 0
    /\ all_pages = <<>>
    /\ start = 0
    /\ limit = 0
    /\ fetchPc = "idle"
    /\ fetchResult = "not called"
    /\ listLog = <<>>

\* The requests of the webhook that are in get_pinecone_index.
Callers == {"request 1", "request 2"}

IdleRace ==
    /\ callerPc = [c \in Callers |-> "idle"]
    /\ callerCreated = [c \in Callers |-> FALSE]
    /\ createLog = <<>>

IdleQuery ==
    /\ queryPc = "idle"
    /\ queryN = 0
    /\ index_created = FALSE
    /\ total_vectors = 0
    /\ ingest = "not run"
    /\ recordsAtStart = <<>>
    /\ res = <<>>
    /\ queryResult = <<>>

(***************************************************************************)
(* chunk_text: utils/data_prep copy.py, lines 68-92.                       *)
(* A text is a sequence of one-character strings.                          *)
(***************************************************************************)
MaxTextLen == 8
MaxBudget == 2

Chars == {"a", ".", " "}
Texts == SeqsUpTo(Chars, MaxTextLen)

\* Python's text.split('. '): cut at the non-overlapping occurrences of the
\* separator found from the left; no occurrence gives the text itself.
RECURSIVE Split(_)
Split(s) ==
    LET at == {i \in 1..(Len(s) - 1) : s[i] = "." /\ s[i + 1] = " "}
    IN  IF at = {} THEN <<s>>
        ELSE LET i == Min(at)
             IN  <<SubSeq(s, 1, i - 1)>> \o Split(SubSeq(s, i + 2, Len(s)))

\* Python's '. '.join(parts).
RECURSIVE Join(_)
Join(parts) ==
    IF parts = <<>> THEN <<>>
    ELSE IF Len(parts) = 1 THEN parts[1]
    ELSE parts[1] \o <<".", " ">> \o Join(Tail(parts))

\* line 78: rough estimation of tokens (1 token is about 4 chars).
SentenceSize(len) == len \div 4

\* line 80: if current_size + sentence_size > max_chunk_size.
Overflows(current_size, sentence_size, max) ==
    current_size + sentence_size > max

\* line 83: current_chunk = [sentence] (the sentence is kept by its position).
StartChunkDropsSentence(i) == <<>>

StartChunk(i) == <<i>>

\* lines 82 and 90: '. '.join(current_chunk) + '.'.
CloseChunkNoPeriod(parts) == Join(parts)

CloseChunk(parts) == Join(parts) \o <<".">>

\* lines 76-87: the loop over the sentences; lens[i] is len(sentences[i]);
\* current_chunk and the closed chunks hold sentence positions.
RECURSIVE ChunkLoop(_, _, _, _)
ChunkLoop(lens, max, i, st) ==
    IF i > Len(lens) THEN st
    ELSE LET sentence_size == SentenceSize(lens[i])
             nxt == IF Overflows(st.current_size, sentence_size, max)
                    THEN [chunks |-> IF st.current_chunk # <<>>
                                     THEN Append(st.chunks, st.current_chunk)
                                     ELSE st.chunks,
                          current_chunk |-> StartChunk(i),
                          current_size |-> sentence_size]
                    ELSE [chunks |-> st.chunks,
                          current_chunk |-> Append(st.current_chunk, i),
                          current_size |-> st.current_size + sentence_size]
         IN  ChunkLoop(lens, max, i + 1, nxt)

\* lines 72-74 and 89-92: the groups of sentence positions, one per chunk.
ChunkGroups(lens, max) ==
    LET st == ChunkLoop(lens, max, 1,
                        [chunks |-> <<>>, current_chunk |-> <<>>, current_size |-> 0])
    IN  IF st.current_chunk # <<>> THEN Append(st.chunks, st.current_chunk)
        ELSE st.chunks

\* chunk_text(text, max_chunk_size) on a text of characters.
chunk_text(t, max) ==
    LET sentences == Split(t)
        groups == ChunkGroups([i \in 1..Len(sentences) |-> Len(sentences[i])], max)
    IN  [k \in 1..Len(groups) |->
            CloseChunk([j \in 1..Len(groups[k]) |-> sentences[groups[k][j]]])]

InitChunk ==
    /\ text \in Texts
    /\ max_chunk_size \in 0..MaxBudget
    /\ chunks = <<>>
    /\ chunkPc = "call"
    /\ IdleIndex /\ IdleUpsert /\ IdleWalk /\ IdleScrape /\ IdleCorpus /\ IdleQuery
    /\ IdleFetch
    /\ IdleRace

ChunkText ==
    /\ chunkPc = "call"
    /\ chunks' = chunk_text(text, max_chunk_size)
    /\ chunkPc' = "done"
    /\ UNCHANGED <<text, max_chunk_size>>
    /\ UNCHANGED <<fetchVars, indexVars, upsertVars, walkVars, raceVars, scrapeVars, corpusVars, queryVars>>

NextChunk == ChunkText

SpecChunk == InitChunk /\ [][NextChunk]_vars

\* The estimated size of the whole text against the budget.
TextBelowBudget == SentenceSize(Len(text)) < max_chunk_size
TextExceedsBudget == SentenceSize(Len(text)) > max_chunk_size

\* C9 as stated: a text whose estimate len(text)//4 is below max_chunk_size
\* comes back as exactly one chunk equal to the input text.
C9_OneChunkEqualsText ==
    (chunkPc = "done" /\ TextBelowBudget) => chunks = <<text>>

\* C9 as amended: a text whose estimate len(text)//4 is below max_chunk_size
\* comes back as exactly one chunk, the input text followed by one '.'.
C9_OneChunkTextPlusPeriod ==
    (chunkPc = "done" /\ TextBelowBudget) => chunks = <<text \o <<".">>>>

\* C9 witness: a text of several sentences below the budget has been chunked.
C9_Witness ==
    /\ chunkPc = "done"
    /\ TextBelowBudget
    /\ Len(Split(text)) >= 2
    /\ Len(chunks) = 1

\* The '.' appended to a chunk removed again.
RemoveAppendedPeriod(c) == SubSeq(c, 1, Len(c) - 1)

\* The sentences recovered from the chunks, in order.
RecoveredSentences ==
    Flatten([k \in 1..Len(chunks) |-> Split(RemoveAppendedPeriod(chunks[k]))])

\* C10: for a text exceeding the budget, the chunks in order, each without its
\* appended '.', split at the '. ' joiners, give exactly text.split('. ').
C10_ChunksReproduceSentences ==
    (chunkPc = "done" /\ TextExceedsBudget) => RecoveredSentences = Split(text)

\* C10 witness: a text over the budget was cut into several chunks, one of
\* them holding more than one sentence.
C10_Witness ==
    /\ chunkPc = "done"
    /\ TextExceedsBudget
    /\ Len(chunks) >= 2
    /\ \E k \in 1..Len(chunks) : Len(Split(RemoveAppendedPeriod(chunks[k]))) >= 2

\* C11: every returned chunk holding more than one sentence has an estimated
\* size len(chunk)//4 of at most max_chunk_size.
C11_MultiSentenceChunksWithinBudget ==
    chunkPc = "done" =>
        \A k \in 1..Len(chunks) :
            Len(Split(RemoveAppendedPeriod(chunks[k]))) > 1 =>
                SentenceSize(Len(chunks[k])) <= max_chunk_size

(***************************************************************************)
(* The vector index manager: utils/pinecone_logic.py, lines 7-54.          *)
(* The service is a multiset of index names (svcIndexes[n] is the number   *)
(* of indexes called n), so that a second create of one name is seen.      *)
(* getLog[n] is the outcome of each get_pinecone_index(n) since the index  *)
(* n was last deleted: "created" and "existing" are calls that returned    *)
(* (index_created True and False), "raised" a call that raised before any  *)
(* create_index, "create_failed" one whose create_index call raised.       *)
(***************************************************************************)
MaxCalls == 3

Outcomes == {"ok", "error"}

\* lines 9-16: initialize_pinecone_client; keySet is whether PINECONE_API_KEY
\* is set. The client after the call, or "raise".
initialize_pinecone_client(keySet) == IF keySet THEN "client" ELSE "raise"

\* lines 20-21 and 36-37: if pinecone is None: initialize_pinecone_client().
EnsureClient(keySet) ==
    IF pinecone = "None" THEN initialize_pinecone_client(keySet) ELSE pinecone

\* line 39: index_name in [index.name for index in pinecone.list_indexes()].
IndexExistsNeverFound(name) == FALSE

IndexExists(name) == svcIndexes[name] > 0

\* The records an index holds: a record is its id and the run that wrote it
\* (an upsert replaces the record of the same id).
OldRecords ==
    {[id |-> 1, page_id |-> 1, run |-> "old"], [id |-> 3, page_id |-> 3, run |-> "old"]}

\* lines 31-54: get_pinecone_index(index_name). keySet, listing and creating
\* are the environment's answers: the API key being set, and list_indexes and
\* create_index succeeding or raising. A created index holds no record.
get_pinecone_index(name, keySet, listing, creating) ==
    LET client == EnsureClient(keySet)
        result ==
            IF client = "raise" \/ listing = "error" THEN "raised"
            ELSE IF IndexExists(name) THEN "existing"
            ELSE IF creating = "error" THEN "create_failed"
            ELSE "created"
    IN  /\ Len(getLog[name]) < MaxCalls
        /\ pinecone' = IF client = "raise" THEN pinecone ELSE client
        /\ svcIndexes' = IF result = "created"
                         THEN [svcIndexes EXCEPT ![name] = @ + 1]
                         ELSE svcIndexes
        /\ svcRecords' = IF result = "created"
                         THEN [svcRecords EXCEPT ![name] = {}]
                         ELSE svcRecords
        /\ getLog' = [getLog EXCEPT ![name] = Append(@, result)]
        /\ lastDelete' = lastDelete

\* What pinecone.delete_index(index_name) does (line 24): it deletes the
\* index, raises NotFound for an index the service does not hold, or raises
\* another error and deletes nothing.
delete_index(name, deleting) ==
    IF svcIndexes[name] = 0 THEN "NotFound"
    ELSE IF deleting = "error" THEN "error" ELSE "ok"

\* lines 23-27 without the try: the exception of delete_index is not caught.
DeleteErrorRaises(svc) == FALSE

\* lines 26-27: except Exception catches whatever delete_index raises.
DeleteErrorCaught(svc) == TRUE

\* lines 19-27: delete_pinecone_index(index_name). lastDelete is the latest
\* call: what its delete_index call did ("none": not called), the records
\* that went with the index, and how the function ended; a missing API key
\* raises out of the function before the try.
delete_pinecone_index(name, keySet, deleting) ==
    LET client == EnsureClient(keySet)
        svc == IF client = "raise" THEN "none" ELSE delete_index(name, deleting)
        result == IF svc = "ok" \/ (svc # "none" /\ DeleteErrorCaught(svc))
                  THEN "returned" ELSE "raised"
    IN  /\ pinecone' = IF client = "raise" THEN pinecone ELSE client
        /\ svcIndexes' = IF svc = "ok" THEN [svcIndexes EXCEPT ![name] = 0]
                         ELSE svcIndexes
        /\ svcRecords' = IF svc = "ok" THEN [svcRecords EXCEPT ![name] = {}]
                         ELSE svcRecords
        /\ getLog' = IF svc = "ok" THEN [getLog EXCEPT ![name] = <<>>] ELSE getLog
        /\ lastDelete' = <<[name |-> name, svc |-> svc, result |-> result,
                             dropped |-> IF svc = "ok" THEN svcRecords[name] ELSE {}]>>

InitIndex ==
    /\ pinecone \in {"None", "client"}
    /\ svcIndexes \in [IndexNames -> {0, 1}]
    /\ svcRecords \in [IndexNames -> {{}, OldRecords}]
    /\ \A n \in IndexNames : svcIndexes[n] = 0 => svcRecords[n] = {}
    /\ getLog = [n \in IndexNames |-> <<>>]
    /\ lastDelete = <<>>
    /\ IdleChunk /\ IdleUpsert /\ IdleWalk /\ IdleScrape /\ IdleCorpus /\ IdleQuery
    /\ IdleFetch
    /\ IdleRace

\* A call of get_pinecone_index by a client of the module.
GetPineconeIndex ==
    /\ corpusPc = "idle"
    /\ \E name \in IndexNames, keySet \in BOOLEAN,
          listing \in Outcomes, creating \in Outcomes :
          get_pinecone_index(name, keySet, listing, creating)
    /\ UNCHANGED <<fetchVars, chunkVars, upsertVars, walkVars, raceVars, scrapeVars, corpusVars, queryVars>>

\* A call of delete_pinecone_index by a client of the module.
DeletePineconeIndex ==
    /\ corpusPc = "idle"
    /\ \E name \in IndexNames, keySet \in BOOLEAN, deleting \in Outcomes :
          delete_pinecone_index(name, keySet, deleting)
    /\ UNCHANGED <<fetchVars, chunkVars, upsertVars, walkVars, raceVars, scrapeVars, corpusVars, queryVars>>

NextIndex == GetPineconeIndex \/ DeletePineconeIndex

SpecIndex == InitIndex /\ [][NextIndex]_vars

Returned(outcome) == outcome \in {"created", "existing"}
IssuedCreate(outcome) == outcome \in {"created", "create_failed"}

\* C1: whatever the service held before, once a get_pinecone_index(name) has
\* returned, no later call for that name (with no delete in between) issues a
\* create_index call, each later call that returns reports index_created =
\* False, and the service never holds two indexes of one name.
C1_EnsureIndexIdempotent ==
    \A n \in IndexNames :
        /\ svcIndexes[n] <= 1
        /\ \A i, j \in 1..Len(getLog[n]) :
              (i < j /\ Returned(getLog[n][i])) =>
                  /\ ~IssuedCreate(getLog[n][j])
                  /\ Returned(getLog[n][j]) => getLog[n][j] = "existing"

\* C1 witness: a first call created the index and the next call found it.
C1_Witness ==
    \E n \in IndexNames :
        /\ Len(getLog[n]) >= 2
        /\ getLog[n][1] = "created"
        /\ getLog[n][2] = "existing"
        /\ svcIndexes[n] = 1

(***************************************************************************)
(* upsert_data: utils/pinecone_logic.py, lines 58-76.                      *)
(* The DataFrame has dfLen rows, named by their position 1..dfLen in       *)
(* iteration order; a batch is the sequence of the rows it holds.          *)
(* upsertCalls is the batch of each index.upsert call issued so far.       *)
(***************************************************************************)
MaxRows == 450

\* line 67: the batch size.
BatchSize == 200

\* line 67: if len(prepped) >= 200.
BatchFullOffByOne(p) == Len(p) > BatchSize

BatchFull(p) == Len(p) >= BatchSize

\* create_embeddings.py line 10: INDEX_NAME.
INDEX_NAME == "big-data"

\* line 64: row['id'] of the i-th row of df: the id column of main's
\* DataFrame, or the row's position for a DataFrame without one.
RowId(i) == IF i <= Len(cdf) THEN cdf[i].id ELSE i

\* line 63: meta = ast.literal_eval(row['metadata']) of the i-th row of df,
\* when it does not raise: the dict json.dumps was given (data_prep copy.py
\* lines 54-62). A DataFrame without the column has the metadata
\* clean_data_pinecone_schema would give its rows.
RowMeta(i) == IF i <= Len(cdf) THEN cdf[i].metadata ELSE [page_id |-> i]

\* lines 64-66: the record of the i-th row of df.
Prepped(i) == [id |-> RowId(i), page_id |-> RowMeta(i).page_id, run |-> "new"]

\* The records of an index after index.upsert(batch) by this run: a record
\* replaces the one stored under its id, the last of a batch winning.
Upserted(records, batch) ==
    LET ids == {RowId(batch[k]) : k \in 1..Len(batch)}
        Last(i) == CHOOSE k \in 1..Len(batch) :
                      /\ RowId(batch[k]) = i
                      /\ \A j \in (k + 1)..Len(batch) : RowId(batch[j]) # i
    IN  {r \in records : r.id \notin ids} \cup {Prepped(batch[Last(i)]) : i \in ids}

\* The records of the index after an index.upsert(batch) that raised: the
\* request was applied by the service or it was not; nothing else changes.
AfterFailedUpsertRollsBack(records, batch, applied) == {}

AfterFailedUpsert(records, batch, applied) ==
    IF applied THEN Upserted(records, batch) ELSE records

\* lines 68 and 73 inside a try that goes on with the loop.
UpsertRaisesNever(upserting) == FALSE

\* lines 68 and 73: index.upsert is called outside any try: its exception
\* leaves upsert_data.
UpsertRaises(upserting) == upserting = "error"

\* lines 68 and 73: index.upsert(prepped), with its effect on the index.
IndexUpsert(batch, upserting, applied) ==
    /\ upsertCalls' = Append(upsertCalls, batch)
    /\ upsertOutcomes' = Append(upsertOutcomes, upserting)
    /\ svcRecords' = [svcRecords EXCEPT ![index] =
                         IF upserting = "ok" THEN Upserted(@, batch)
                         ELSE AfterFailedUpsert(@, batch, applied)]

InitUpsert ==
    /\ index = INDEX_NAME
    /\ dfLen \in 0..MaxRows
    /\ rowI = 0
    /\ prepped = <<>>
    /\ upsertCalls = <<>>
    /\ upsertOutcomes = <<>>
    /\ upsertPc = "loop"
    /\ pinecone = "client"
    /\ svcIndexes = [n \in IndexNames |-> IF n = INDEX_NAME THEN 1 ELSE 0]
    /\ svcRecords = [n \in IndexNames |-> {}]
    /\ getLog = [n \in IndexNames |-> <<>>]
    /\ lastDelete = <<>>
    /\ IdleChunk /\ IdleWalk /\ IdleScrape /\ IdleCorpus /\ IdleQuery
    /\ IdleFetch
    /\ IdleRace

\* lines 62-69: one iteration of the loop over df.iterrows(). parsing is the
\* outcome of ast.literal_eval(row['metadata']), upserting that of the
\* index.upsert call a full batch makes; either may raise out of upsert_data.
UpsertRow ==
    /\ upsertPc = "loop"
    /\ rowI < dfLen
    /\ \E parsing \in Outcomes, upserting \in Outcomes, applied \in BOOLEAN :
          LET batch == Append(prepped, rowI + 1)
          IN  IF parsing = "error"
              THEN /\ upsertPc' = "literal_eval raised"
                   /\ UNCHANGED <<rowI, prepped, upsertCalls, upsertOutcomes, svcRecords>>
              ELSE IF BatchFull(batch)
              THEN /\ IndexUpsert(batch, upserting, applied)
                   /\ IF UpsertRaises(upserting)
                      THEN /\ prepped' = batch
                           /\ rowI' = rowI
                           /\ upsertPc' = "raised"
                      ELSE /\ prepped' = <<>>
                           /\ rowI' = rowI + 1
                           /\ upsertPc' = "loop"
              ELSE /\ prepped' = batch
                   /\ rowI' = rowI + 1
                   /\ UNCHANGED <<upsertCalls, upsertOutcomes, svcRecords, upsertPc>>
    /\ UNCHANGED <<index, dfLen>>
    /\ UNCHANGED <<pinecone, svcIndexes, getLog, lastDelete>>
    /\ UNCHANGED <<fetchVars, chunkVars, walkVars, raceVars, scrapeVars, corpusVars, queryVars>>

\* lines 71-76: upsert any remaining entries after the loop, then return.
UpsertRemaining ==
    /\ upsertPc = "loop"
    /\ rowI = dfLen
    /\ \E upserting \in Outcomes, applied \in BOOLEAN :
          IF Len(prepped) > 0
          THEN /\ IndexUpsert(prepped, upserting, applied)
               /\ upsertPc' = IF UpsertRaises(upserting) THEN "raised" ELSE "done"
               /\ prepped' = IF UpsertRaises(upserting) THEN prepped ELSE <<>>
          ELSE /\ upsertPc' = "done"
               /\ UNCHANGED <<upsertCalls, upsertOutcomes, svcRecords, prepped>>
    /\ UNCHANGED <<index, dfLen, rowI>>
    /\ UNCHANGED <<pinecone, svcIndexes, getLog, lastDelete>>
    /\ UNCHANGED <<fetchVars, chunkVars, walkVars, raceVars, scrapeVars, corpusVars, queryVars>>

NextUpsert == UpsertRow \/ UpsertRemaining

SpecUpsert == InitUpsert /\ [][NextUpsert]_vars

CeilDiv(n, d) == (n + d - 1) \div d

\* C2: when upsert_data returns for N rows it has issued exactly ceil(N/200)
\* upsert calls: the rows in input order cut into consecutive batches of
\* exactly 200, then one batch of N mod 200 rows when that is not zero; every
\* row is in exactly one batch, no batch is empty, and N = 0 issues no call.
C2_BatchesOfTwoHundred ==
    upsertPc = "done" =>
        /\ Len(upsertCalls) = CeilDiv(dfLen, BatchSize)
        /\ Flatten(upsertCalls) = [i \in 1..dfLen |-> i]
        /\ \A k \in 1..Len(upsertCalls) :
              Len(upsertCalls[k]) =
                  IF k < Len(upsertCalls) \/ dfLen % BatchSize = 0
                  THEN BatchSize ELSE dfLen % BatchSize
        /\ \A k \in 1..Len(upsertCalls) : upsertCalls[k] # <<>>

\* C2 witness: 450 rows were sent as batches of 200, 200 and 50.
C2_Witness ==
    /\ upsertPc = "done"
    /\ dfLen = 450
    /\ [k \in 1..Len(upsertCalls) |-> Len(upsertCalls[k])] = <<200, 200, 50>>

\* The ids of the rows of the first n upsert calls.
SentIds(n) ==
    UNION {{RowId(upsertCalls[k][j]) : j \in 1..Len(upsertCalls[k])} : k \in 1..n}
IndexIds == {r.id : r \in svcRecords[index]}

\* C15: if the k-th upsert call of upsert_data fails, it is the last call
\* issued, upsert_data has raised to its caller, the rows of the batches
\* 1..k-1 are in the index and the index holds nothing past the k-th batch.
C15_FailedUpsertKeepsEarlierBatches ==
    \A k \in 1..Len(upsertOutcomes) :
        upsertOutcomes[k] = "error" =>
            /\ k = Len(upsertCalls)
            /\ upsertPc = "raised"
            /\ SentIds(k - 1) \subseteq IndexIds
            /\ IndexIds \subseteq SentIds(k)

\* C15 witness: the third upsert call failed after two batches of 200 rows,
\* and the 400 rows of those batches are in the index.
C15_Witness ==
    /\ upsertPc = "raised"
    /\ Len(upsertCalls) = 3
    /\ upsertOutcomes = <<"ok", "ok", "error">>
    /\ IndexIds = 1..400

(***************************************************************************)
(* The page tree walker: confluence_status.py, lines 70-113.               *)
(* pageChildren[p] is the set of the direct children the server holds for  *)
(* page p; the server lists them in ascending id order, ListingPageSize    *)
(* per response. callStack is the recursion of build_page_tree_lines: one  *)
(* frame per active call, with the children it fetched and the position of *)
(* its for loop. lines holds the page id of each line produced so far.     *)
(***************************************************************************)
MaxPages == 4
MaxEdges == 4
ListingPageSize == 2
RecursionLimit == 5

Pages == 1..MaxPages
RootPage == 1

Edges == {e \in Pages \X Pages : e[1] # e[2]}
PageGraphs ==
    {[p \in Pages |-> {e[2] : e \in {x \in es : x[1] = p}}] :
        es \in {x \in SUBSET Edges : Cardinality(x) <= MaxEdges}}

\* A set of page ids in server order.
RECURSIVE Ascending(_)
Ascending(S) ==
    IF S = {} THEN <<>> ELSE LET m == Min(S) IN <<m>> \o Ascending(S \ {m})

\* The server's answer to GET content/{id}?expand=children.page with status
\* 200: the first response page of the children listing.
ChildrenResponse(page_id) ==
    LET all == Ascending(pageChildren[page_id])
    IN  SubSeq(all, 1, IF Len(all) < ListingPageSize THEN Len(all) ELSE ListingPageSize)

\* lines 70-92: get_page_children(page_id); one request, [] unless HTTP 200.
get_page_children(page_id, status) ==
    IF status # 200 THEN <<>> ELSE ChildrenResponse(page_id)

HttpStatuses == {200, 500}

\* lines 102-107: the start of a call: its line, then its children.
Frame(page_id, status) ==
    [page_id |-> page_id, status |-> status,
     children |-> get_page_children(page_id, status), next |-> 1]

InitWalk ==
    /\ pageChildren \in PageGraphs
    /\ callStack = <<>>
    /\ lines = <<>>
    /\ walkPc = "start"
    /\ IdleChunk /\ IdleIndex /\ IdleUpsert /\ IdleScrape /\ IdleCorpus /\ IdleQuery
    /\ IdleFetch
    /\ IdleRace

\* line 135: main calls build_page_tree_lines(homepage_id, homepage_title).
WalkStart ==
    /\ walkPc = "start"
    /\ \E status \in HttpStatuses :
          callStack' = <<Frame(RootPage, status)>>
    /\ lines' = <<RootPage>>
    /\ walkPc' = "walking"
    /\ UNCHANGED pageChildren
    /\ UNCHANGED <<fetchVars, raceVars, chunkVars, indexVars, upsertVars, scrapeVars, corpusVars, queryVars>>

\* lines 108-109: the for loop takes the next child and recurses into it; past
\* the interpreter's recursion limit the call raises RecursionError instead.
WalkRecurse ==
    /\ walkPc = "walking"
    /\ callStack # <<>>
    /\ LET top == callStack[Len(callStack)]
       IN  /\ top.next <= Len(top.children)
           /\ IF Len(callStack) >= RecursionLimit
              THEN /\ walkPc' = "RecursionError"
                   /\ UNCHANGED <<callStack, lines>>
              ELSE /\ \E status \in HttpStatuses :
                        callStack' =
                            Append([callStack EXCEPT ![Len(callStack)].next = @ + 1],
                                   Frame(top.children[top.next], status))
                   /\ lines' = Append(lines, top.children[top.next])
                   /\ walkPc' = walkPc
    /\ UNCHANGED pageChildren
    /\ UNCHANGED <<fetchVars, raceVars, chunkVars, indexVars, upsertVars, scrapeVars, corpusVars, queryVars>>

\* lines 110-113: the for loop is over: the call returns to its caller, which
\* extends its lines by the child's (lines already holds them in order).
WalkReturn ==
    /\ walkPc = "walking"
    /\ callStack # <<>>
    /\ callStack[Len(callStack)].next > Len(callStack[Len(callStack)].children)
    /\ callStack' = SubSeq(callStack, 1, Len(callStack) - 1)
    /\ walkPc' = IF Len(callStack) = 1 THEN "done" ELSE "walking"
    /\ UNCHANGED <<pageChildren, lines>>
    /\ UNCHANGED <<fetchVars, raceVars, chunkVars, indexVars, upsertVars, scrapeVars, corpusVars, queryVars>>

NextWalk == WalkStart \/ WalkRecurse \/ WalkReturn

SpecWalk == InitWalk /\ [][NextWalk]_vars

\* The pages reachable from the root along child links.
RECURSIVE ReachFrom(_)
ReachFrom(S) ==
    LET more == S \cup UNION {pageChildren[p] : p \in S}
    IN  IF more = S THEN S ELSE ReachFrom(more)

ReachablePages == ReachFrom({RootPage})

\* A child eventually points back to an ancestor: some reachable page reaches
\* itself again.
HasCycle == \E p \in ReachablePages : p \in ReachFrom(pageChildren[p])

\* A tree: no cycle, and no reachable page is the child of two pages.
IsTree ==
    /\ ~HasCycle
    /\ \A p, q \in ReachablePages :
          p # q => pageChildren[p] \cap pageChildren[q] = {}

NoDuplicates(s) == \A i, j \in 1..Len(s) : i # j => s[i] # s[j]

\* C3: on a page graph with a cycle the walk from the root terminates (it
\* does not run into the recursion limit) and lists each page id at most once.
C3_CycleWalkTerminatesVisitingOnce ==
    (walkPc # "idle" /\ HasCycle) =>
        /\ walkPc # "RecursionError"
        /\ NoDuplicates(lines)

\* C4: on a finite acyclic page tree the finished walk lists every page
\* reachable from the root exactly once.
C4_TreeWalkListsEveryPageOnce ==
    (walkPc = "done" /\ IsTree) =>
        /\ {lines[i] : i \in 1..Len(lines)} = ReachablePages
        /\ NoDuplicates(lines)

\* C5: a get_page_children call that is answered returns every direct child
\* of the page in server order, however many children the page has.
C5_AllChildrenReturned ==
    \A k \in 1..Len(callStack) :
        callStack[k].status = 200 =>
            callStack[k].children = Ascending(pageChildren[callStack[k].page_id])

(***************************************************************************)
(* Cell values of the tabular data. A text is held as the lengths of its   *)
(* sentences, len(s) for each s of text.split('. '): a split never gives   *)
(* an empty list, so the empty list stands for a missing value (NaN) and   *)
(* <<0>> for the empty string.                                             *)
(***************************************************************************)
NaN == <<>>
EmptyText == <<0>>
\* "Hello world".
ShortText == <<11>>

(***************************************************************************)
(* The scraper: app_confluence.py, main (lines 378-417) from step 2 on,    *)
(* with fetch_labels, fetch_page_content, delete_internal_only_records,    *)
(* add_content_to_dataframe and save_dataframe_to_csv.                     *)
(* sdf is the DataFrame, one row per page in listing order; scrapeLog the  *)
(* requests made, with what each function returned; csvFile the rows of    *)
(* the file once it is written (<<>> with scrapePc # "done": no file).     *)
(***************************************************************************)
MaxScrapePages == 3

\* What api_call returns for a label request: None, or the page's labels.
LabelResponses == {"None"} \cup {"no labels", "other label", "internal_only"}

\* lines 85-88 never finding the internal_only label.
fetch_labels_never_internal(json_data) ==
    IF json_data = "None" THEN "None" ELSE "False"

\* lines 93-95 returning True for a failed request.
fetch_labels_failure_is_internal(json_data) ==
    IF json_data = "None" \/ json_data = "internal_only" THEN "True" ELSE "False"

\* lines 78-95: fetch_labels(page_id), on what api_call returned.
fetch_labels(json_data) ==
    IF json_data = "None" THEN "None"
    ELSE IF json_data = "internal_only" THEN "True" ELSE "False"

\* The answers to the label request of a page: any of them in a space of at
\* most MaxScrapePages pages; in a larger space no page carries a label.
LabelAnswers == IF spacePages <= MaxScrapePages THEN LabelResponses ELSE {"no labels"}

\* What fetch_page_content returns (lines 99-111): None on a failed call, or
\* the markup: without visible text, or with it.
ContentResponses == {"None", "<script>x</script>", "<p>Hello world</p>"}

\* The answers to the content request of a page, and the outcomes of parsing
\* it: any of them in a space of at most MaxScrapePages pages; in a larger
\* space every page has text.
ContentAnswers ==
    IF spacePages <= MaxScrapePages THEN ContentResponses ELSE {"<p>Hello world</p>"}
ParsingOutcomes == IF spacePages <= MaxScrapePages THEN Outcomes ELSE {"ok"}

\* lines 324-333: the text BeautifulSoup extracts, whitespace collapsed.
ExtractText(html_content) ==
    IF html_content = "<p>Hello world</p>" THEN ShortText ELSE EmptyText

\* lines 148-156: the row add_all_pages_to_dataframe makes for a page; the
\* content and is_internal columns of create_dataframe stay missing.
NewRecord(page_id) == [id |-> page_id, content |-> NaN, is_internal |-> "NaN"]

\* line 296: df = df[df['is_internal'] != True].
NotInternalKeepsAll(row) == TRUE

NotInternal(row) == row.is_internal # "True"

InitScrape ==
    /\ \E n \in 0..MaxScrapePages : sdf = [i \in 1..n |-> NewRecord(i)]
    /\ scrapeI = 0
    /\ scrapePc = "labels"
    /\ csvFile = <<>>
    /\ scrapeLog = <<>>
    /\ IdleChunk /\ IdleIndex /\ IdleUpsert /\ IdleWalk /\ IdleCorpus /\ IdleQuery
    /\ IdleFetch
    /\ IdleRace

\* lines 280-286: one iteration of the label loop.
FetchLabelsStep ==
    /\ scrapePc = "labels"
    /\ scrapeI < Len(sdf)
    /\ \E json_data \in LabelAnswers :
          LET page_id == sdf[scrapeI + 1].id
              is_internal_page == fetch_labels(json_data)
          IN  /\ sdf' = IF is_internal_page # "None"
                        THEN [i \in 1..Len(sdf) |->
                                 IF sdf[i].id = page_id
                                 THEN [sdf[i] EXCEPT !.is_internal = is_internal_page]
                                 ELSE sdf[i]]
                        ELSE sdf
              /\ scrapeLog' = Append(scrapeLog,
                     [call |-> "labels", page_id |-> page_id, response |-> json_data,
                      result |-> is_internal_page])
    /\ scrapeI' = scrapeI + 1
    /\ UNCHANGED <<scrapePc, csvFile>>
    /\ UNCHANGED <<fetchVars, chunkVars, indexVars, upsertVars, walkVars, raceVars, corpusVars, queryVars>>

\* lines 291-303: the filter after the label loop; main then goes on to step 4.
DeleteInternalOnlyRecords ==
    /\ scrapePc = "labels"
    /\ scrapeI = Len(sdf)
    /\ sdf' = SelectSeq(sdf, NotInternal)
    /\ scrapeI' = 0
    /\ scrapePc' = "content"
    /\ UNCHANGED <<csvFile, scrapeLog>>
    /\ UNCHANGED <<fetchVars, chunkVars, indexVars, upsertVars, walkVars, raceVars, corpusVars, queryVars>>

\* lines 317-346: one iteration of the content loop. parsing is the outcome
\* of the BeautifulSoup block, whose exception leaves the row as it was.
FetchContentStep ==
    /\ scrapePc = "content"
    /\ scrapeI < Len(sdf)
    /\ \E html_content \in ContentAnswers, parsing \in ParsingOutcomes :
          LET page_id == sdf[scrapeI + 1].id
          IN  /\ sdf' = IF html_content # "None" /\ parsing = "ok"
                        THEN [i \in 1..Len(sdf) |->
                                 IF sdf[i].id = page_id
                                 THEN [sdf[i] EXCEPT !.content = ExtractText(html_content)]
                                 ELSE sdf[i]]
                        ELSE sdf
              /\ scrapeLog' = Append(scrapeLog,
                     [call |-> "content", page_id |-> page_id, response |-> html_content,
                      result |-> html_content])
    /\ scrapeI' = scrapeI + 1
    /\ UNCHANGED <<scrapePc, csvFile>>
    /\ UNCHANGED <<fetchVars, chunkVars, indexVars, upsertVars, walkVars, raceVars, corpusVars, queryVars>>

\* lines 356-376 and 410-417: save_dataframe_to_csv writes every row of df;
\* an exception of to_csv is caught and leaves no rows written.
SaveDataframeToCsv ==
    /\ scrapePc = "content"
    /\ scrapeI = Len(sdf)
    /\ \E writing \in Outcomes :
          /\ csvFile' = IF writing = "ok" THEN sdf ELSE <<>>
          /\ scrapePc' = IF writing = "ok" THEN "done" ELSE "save failed"
    /\ UNCHANGED <<sdf, scrapeI, scrapeLog>>
    /\ UNCHANGED <<fetchVars, chunkVars, indexVars, upsertVars, walkVars, raceVars, corpusVars, queryVars>>

NextScrape ==
    \/ FetchLabelsStep
    \/ DeleteInternalOnlyRecords
    \/ FetchContentStep
    \/ SaveDataframeToCsv

SpecScrape == InitScrape /\ [][NextScrape]_vars

(***************************************************************************)
(* The flat listing: fetch_all_pages (app_confluence.py lines 207-264)     *)
(* over a space of spacePages pages, listed in a fixed order; a page is    *)
(* named by its position in that order. listLog has one entry per          *)
(* fetch_pages call: what was asked, what came back, and whether the call  *)
(* was made by the fetch loop. fetchResult is what fetch_all_pages         *)
(* returned: "None" or "all_pages" (the list it was given, extended).      *)
(***************************************************************************)
MaxSpacePages == 401

\* line 207: the default of max_chunk_size.
FetchMaxChunkSize == 200
\* line 382: the limit main asks for.
MainLimit == 2000

\* The limits fetch_all_pages is called with: one page, the chunk size, its
\* neighbours, its double, and the limit of main.
FetchLimits ==
    {1, FetchMaxChunkSize - 1, FetchMaxChunkSize, FetchMaxChunkSize + 1,
     FetchMaxChunkSize + FetchMaxChunkSize, MainLimit}

\* The pages of the space from offset from on, at most n of them.
Listing(from, n) ==
    LET left == IF spacePages > from THEN spacePages - from ELSE 0
        count == IF n < left THEN n ELSE left
    IN  [i \in 1..(IF count > 0 THEN count ELSE 0) |-> from + i]

\* What fetch_pages(start, limit) returns (lines 26-34): None when api_call
\* failed, a document without 'results', or a document whose results are the
\* pages asked for, or fewer of them than the space still holds.
ListingResponses(from, n) ==
    LET full == Listing(from, n)
    IN  {[kind |-> "None", results |-> <<>>],
         [kind |-> "no results", results |-> <<>>],
         [kind |-> "results", results |-> full]}
        \cup (IF full = <<>> THEN {}
              ELSE {[kind |-> "results", results |-> SubSeq(full, 1, Len(full) - 1)]})

\* line 236 asking for all that is left of the limit.
ChunkSizeIsLimit(lim, max) == lim

\* line 236: chunk_size = min(limit, max_chunk_size).
ChunkSize(lim, max) == IF lim < max THEN lim ELSE max

\* line 247 as fetched_count <= chunk_size.
ReachedEndOnFullChunk(fetched_count, chunk_size) == fetched_count <= chunk_size

\* line 247: if fetched_count < chunk_size: break.
ReachedEnd(fetched_count, chunk_size) == fetched_count < chunk_size

\* lines 259-261 going on to line 264.
AfterFailedListingReturnsPages == "all_pages"

\* lines 259-261: a failed listing request: return None.
AfterFailedListing == "None"

ListEntry(from, n, r, inLoop) ==
    [start |-> from, limit |-> n, kind |-> r.kind, count |-> Len(r.results),
     loop |-> inLoop]

InitFetch ==
    /\ spacePages \in 0..MaxSpacePages
    /\ all_pages = <<>>
    /\ start = 0
    /\ limit \in FetchLimits
    /\ fetchPc = "first"
    /\ fetchResult = "not returned"
    /\ listLog = <<>>
    /\ IdleChunk /\ IdleIndex /\ IdleUpsert /\ IdleWalk /\ IdleScrape /\ IdleCorpus
    /\ IdleRace
    /\ IdleQuery

\* lines 219-233: first_response = fetch_pages(0, 1), read for the messages
\* and the progress bar only.
FetchFirstResponse ==
    /\ fetchPc = "first"
    /\ \E first_response \in ListingResponses(0, 1) :
          listLog' = Append(listLog, ListEntry(0, 1, first_response, FALSE))
    /\ fetchPc' = "loop"
    /\ UNCHANGED <<spacePages, all_pages, start, limit, fetchResult>>
    /\ UNCHANGED <<chunkVars, indexVars, upsertVars, walkVars, raceVars, scrapeVars, corpusVars,
                   queryVars>>

\* lines 235-264: one iteration of the fetch loop, and the return it leads to.
FetchChunk ==
    /\ fetchPc = "loop"
    /\ LET chunk_size == ChunkSize(limit, FetchMaxChunkSize)
       IN  \E response_data \in ListingResponses(start, chunk_size) :
              LET results == response_data.results
                  fetched_count == Len(results)
              IN  /\ listLog' = Append(listLog,
                                       ListEntry(start, chunk_size, response_data, TRUE))
                  /\ IF response_data.kind = "None"
                     THEN /\ fetchResult' = AfterFailedListing
                          /\ fetchPc' = "returned"
                          /\ UNCHANGED <<all_pages, start, limit>>
                     ELSE IF response_data.kind = "no results"
                     THEN /\ fetchResult' = "all_pages"
                          /\ fetchPc' = "returned"
                          /\ UNCHANGED <<all_pages, start, limit>>
                     ELSE /\ all_pages' = all_pages \o results
                          /\ IF ReachedEnd(fetched_count, chunk_size)
                             THEN /\ fetchResult' = "all_pages"
                                  /\ fetchPc' = "returned"
                                  /\ UNCHANGED <<start, limit>>
                             ELSE /\ start' = start + fetched_count
                                  /\ limit' = limit - fetched_count
                                  /\ IF limit' <= 0
                                     THEN /\ fetchResult' = "all_pages"
                                          /\ fetchPc' = "returned"
                                     ELSE UNCHANGED <<fetchResult, fetchPc>>
    /\ UNCHANGED spacePages
    /\ UNCHANGED <<chunkVars, indexVars, upsertVars, walkVars, raceVars, scrapeVars, corpusVars,
                   queryVars>>

NextFetch == FetchFirstResponse \/ FetchChunk

SpecFetch == InitFetch /\ [][NextFetch]_vars

\* The program is sequential: a call that can take its next step takes it.
SpecFetchLive == SpecFetch /\ WF_vars(NextFetch)

(***************************************************************************)
(* The scraper's main() as a whole (lines 378-417): fetch_all_pages, the   *)
(* DataFrame, the label pass, the content pass, the CSV file.              *)
(***************************************************************************)
\* The spaces main is run on: the small ones, and one and two chunks' worth.
ScraperSpaces ==
    (0..MaxScrapePages) \cup {FetchMaxChunkSize, FetchMaxChunkSize + 1}

\* lines 380-393: main calls fetch_all_pages([], 0, 2000).
InitScraper ==
    /\ spacePages \in ScraperSpaces
    /\ all_pages = <<>>
    /\ start = 0
    /\ limit = MainLimit
    /\ fetchPc = "first"
    /\ fetchResult = "not returned"
    /\ listLog = <<>>
    /\ sdf = <<>>
    /\ scrapeI = 0
    /\ scrapePc = "fetch"
    /\ csvFile = <<>>
    /\ scrapeLog = <<>>
    /\ IdleChunk /\ IdleIndex /\ IdleUpsert /\ IdleWalk /\ IdleCorpus /\ IdleQuery
    /\ IdleRace

\* lines 393-402: fetch_all_pages has returned: main returns on None, and
\* otherwise makes the DataFrame, one row per listed page, indexed by id.
MainBuildDataframe ==
    /\ scrapePc = "fetch"
    /\ fetchPc = "returned"
    /\ IF fetchResult = "None"
       THEN /\ scrapePc' = "exit"
            /\ UNCHANGED sdf
       ELSE /\ scrapePc' = "labels"
            /\ sdf' = [i \in 1..Len(all_pages) |-> NewRecord(all_pages[i])]
    /\ scrapeI' = 0
    /\ UNCHANGED <<csvFile, scrapeLog>>
    /\ UNCHANGED <<fetchVars, chunkVars, indexVars, upsertVars, walkVars, raceVars, corpusVars,
                   queryVars>>

NextScraper ==
    \/ FetchFirstResponse
    \/ FetchChunk
    \/ MainBuildDataframe
    \/ FetchLabelsStep
    \/ DeleteInternalOnlyRecords
    \/ FetchContentStep
    \/ SaveDataframeToCsv

SpecScraper == InitScraper /\ [][NextScraper]_vars

TextPresent(c) == c # NaN /\ c # EmptyText

\* The pages whose label request returned the internal_only label.
LabelledInternal ==
    {scrapeLog[k].page_id : k \in {x \in 1..Len(scrapeLog) :
        scrapeLog[x].call = "labels" /\ scrapeLog[x].result = "True"}}
\* The pages for which a label request was made.
LabelRequested ==
    {scrapeLog[k].page_id : k \in {x \in 1..Len(scrapeLog) : scrapeLog[x].call = "labels"}}

MaxFileRows == 2

\* pinecone_logic.py line 47: the dimension the index is created with.
IndexDimension == 1536
\* data_prep copy.py line 68: the default max_chunk_size.
DefaultMaxChunkSize == 8000
\* create_embeddings.py line 55: max_rows.
MaxRowsRead == 2000
\* create_embeddings.py line 12: LIMIT.
Limit == 1900

\* Two sentences of 20000 characters: 5000 estimated tokens each.
LongText == <<20000, 20000>>

\* The cells of one row of the file: an empty cell is the empty string.
FileRows ==
    [content : {EmptyText, ShortText, LongText}, is_internal : {"", "False", "True"}]

\* The values of OPENAI_EMBEDDING_MODEL (create_embeddings.py line 24): the
\* default and another model of the embedding API.
EmbeddingModels == {"text-embedding-3-small", "text-embedding-3-large"}

\* The vector length the embedding API returns for a model.
ModelDim(model) == IF model = "text-embedding-3-small" THEN 1536 ELSE 3072

\* What create_embeddings(chunk, model_emb) does: it returns the model's
\* vector, returns a falsy value, or raises.
EmbeddingResponses(model) ==
    {[kind |-> "raise", dim |-> 0, head |-> <<>>],
     [kind |-> "none", dim |-> 0, head |-> <<>>]}
    \cup {[kind |-> "vector", dim |-> ModelDim(model), head |-> h] :
             h \in {<<1, 0>>, <<3, 0>>}}

\* The id columns of a file of n rows: the ids differ from row to row, or the
\* second row repeats the id of the first (nothing in the scraper or in
\* read_csv makes the ids of a file differ). An id stands for its decimal
\* text, which is what astype(str) of line 47 makes of it.
IdColumns(n) == {[i \in 1..n |-> i], [i \in 1..n |-> IF i = 1 THEN 1 ELSE i - 1]}

\* The rows of a file with the id column ids.
WithIds(rows, ids) ==
    [i \in 1..Len(rows) |->
        [id |-> ids[i], content |-> rows[i].content, is_internal |-> rows[i].is_internal]]

\* The files whose other cells are those of cells, with every id column.
CsvFiles(cells) == UNION {{WithIds(f, ids) : ids \in IdColumns(Len(f))} : f \in cells}

\* line 18: pd.read_csv reads an empty cell as NaN.
ReadCell(c) == IF c = EmptyText THEN NaN ELSE c

\* line 18 (nrows) and create_embeddings.py line 62 (head): the first n rows.
FirstRows(rows, n) == SubSeq(rows, 1, IF Len(rows) < n THEN Len(rows) ELSE n)

\* lines 9-33: import_csv; usecols keeps id, tiny_link, content and title.
\* index is the row's label in the DataFrame, its position in the file.
import_csv(rows, max_rows) ==
    FirstRows([i \in 1..Len(rows) |->
                  [index |-> i, id |-> rows[i].id,
                   content |-> ReadCell(rows[i].content)]],
              max_rows)

\* line 41: df['content'].notna() & (df['content'] != '').
ContentValidNotEmptyOnly(row) == row.content # EmptyText

ContentValid(row) == row.content # NaN /\ row.content # EmptyText

\* line 58 storing the row's label instead of row['id'].
PineconeSchemaPageIdFromLabel(row) ==
    [index |-> row.index, id |-> row.id,
     metadata |-> [text |-> row.content, page_id |-> row.index]]

\* lines 54-63: the metadata of a row (what json.loads reads back from the
\* json.dumps of line 55), and the columns kept.
PineconeSchema(row) ==
    [index |-> row.index, id |-> row.id,
     metadata |-> [text |-> row.content, page_id |-> row.id]]

\* lines 36-65: clean_data_pinecone_schema; <<>> stands for the ValueError of
\* line 44 (a cleaned DataFrame is never empty).
clean_data_pinecone_schema(df) ==
    LET kept == SelectSeq(df, ContentValid)
    IN  [i \in 1..Len(kept) |-> PineconeSchema(kept[i])]

GCD(a, b) == CHOOSE d \in 1..(IF a > b THEN a ELSE b) :
    /\ a % d = 0 /\ b % d = 0
    /\ \A e \in 1..(IF a > b THEN a ELSE b) : (a % e = 0 /\ b % e = 0) => e <= d

Fraction(num, den) ==
    IF num = 0 THEN <<0, 1>> ELSE <<num \div GCD(num, den), den \div GCD(num, den)>>

\* line 130 with np.sum in the place of np.mean.
SumOfVectors(vecs) ==
    [dim |-> vecs[1].dim,
     head |-> [c \in 1..Len(vecs[1].head) |->
                  Fraction(SumSeq([k \in 1..Len(vecs) |-> vecs[k].head[c]]), 1)]]

\* line 130: np.mean(chunk_embeddings, axis=0).tolist(), for vectors of one
\* length.
Mean(vecs) ==
    [dim |-> vecs[1].dim,
     head |-> [c \in 1..Len(vecs[1].head) |->
                  Fraction(SumSeq([k \in 1..Len(vecs) |-> vecs[k].head[c]]), Len(vecs))]]

IsVector(r) == r.kind = "vector"
Raised(outs) == {k \in 1..Len(outs) : outs[k].kind = "raise"}

\* lines 112-136: the body of the row loop for a row whose chunks get the
\* responses outs: the new 'values' of the row.
EmbedValues(row, outs) ==
    LET chunk_embeddings == SelectSeq(outs, IsVector)
    IN  IF Raised(outs) # {} \/ chunk_embeddings = <<>> THEN row.values
        ELSE IF \E k \in 1..Len(chunk_embeddings) :
                    chunk_embeddings[k].dim # chunk_embeddings[1].dim
        THEN row.values
        ELSE <<Mean(chunk_embeddings)>>

\* lines 123-124: the requests made for the row, each with what it gave:
\* every chunk up to the first whose request raises.
EmbedRequests(row, outs) ==
    LET last == IF Raised(outs) = {} THEN Len(outs) ELSE Min(Raised(outs))
    IN  [k \in 1..last |->
            [index |-> row.index, id |-> row.id, chunk |-> k, response |-> outs[k]]]

\* line 119: chunk_text(text), the number of chunks it gives for the text.
\* A missing text makes chunk_text raise (line 71), which line 135 catches.
NumChunks(t) == IF t = NaN THEN 0 ELSE Len(ChunkGroups(t, DefaultMaxChunkSize))

HasValues(row) == row.values # <<>>

InitCorpus ==
    /\ csvRows \in CsvFiles(SeqsUpTo(FileRows, MaxFileRows))
    /\ model_emb \in EmbeddingModels
    /\ overwrite = TRUE
    /\ cdf = <<>>
    /\ embedI = 0
    /\ corpusPc = "import"
    /\ embedCalls = <<>>
    /\ IdleChunk /\ IdleIndex /\ IdleUpsert /\ IdleWalk /\ IdleScrape /\ IdleQuery
    /\ IdleFetch
    /\ IdleRace

\* create_embeddings.py lines 52-63: import_csv, then df.head(LIMIT). reading
\* is the outcome of reading the file (missing file, missing column).
ImportCsv ==
    /\ corpusPc = "import"
    /\ \E reading \in Outcomes :
          LET df == import_csv(csvRows, MaxRowsRead)
          IN  IF reading = "error" \/ df = <<>>
              THEN /\ corpusPc' = "failed"
                   /\ cdf' = <<>>
              ELSE /\ corpusPc' = "imported"
                   /\ cdf' = FirstRows(df, Limit)
    /\ UNCHANGED <<csvRows, model_emb, overwrite, embedI, embedCalls>>
    /\ UNCHANGED <<fetchVars, chunkVars, indexVars, upsertVars, walkVars, raceVars, scrapeVars, queryVars>>

\* create_embeddings.py lines 66-70: clean_data_pinecone_schema.
CleanData ==
    /\ corpusPc = "imported"
    /\ LET df == clean_data_pinecone_schema(cdf)
       IN  IF df = <<>>
           THEN /\ corpusPc' = "failed"
                /\ cdf' = <<>>
           ELSE /\ corpusPc' = "cleaned"
                /\ cdf' = df
    /\ UNCHANGED <<csvRows, model_emb, overwrite, embedI, embedCalls>>
    /\ UNCHANGED <<fetchVars, chunkVars, indexVars, upsertVars, walkVars, raceVars, scrapeVars, queryVars>>

\* data_prep copy.py lines 96-102: generate_embeddings_and_add_to_df starts:
\* df['values'] = None.
StartEmbeddings ==
    /\ corpusPc = "cleaned"
    /\ cdf' = [i \in 1..Len(cdf) |->
                  [index |-> cdf[i].index, id |-> cdf[i].id,
                   metadata |-> cdf[i].metadata, values |-> <<>>]]
    /\ embedI' = 0
    /\ corpusPc' = "embedding"
    /\ UNCHANGED <<csvRows, model_emb, overwrite, embedCalls>>
    /\ UNCHANGED <<fetchVars, chunkVars, indexVars, upsertVars, walkVars, raceVars, scrapeVars, queryVars>>

\* data_prep copy.py lines 104-136: one iteration of the row loop.
EmbedRow ==
    /\ corpusPc = "embedding"
    /\ embedI < Len(cdf)
    /\ LET row == cdf[embedI + 1]
           t == row.metadata.text
       IN  IF t = EmptyText
           THEN UNCHANGED <<cdf, embedCalls>>
           ELSE \E outs \in [1..NumChunks(t) -> EmbeddingResponses(model_emb)] :
                   /\ cdf' = [cdf EXCEPT ![embedI + 1].values = EmbedValues(row, outs)]
                   /\ embedCalls' = embedCalls \o EmbedRequests(row, outs)
    /\ embedI' = embedI + 1
    /\ UNCHANGED <<csvRows, model_emb, overwrite, corpusPc>>
    /\ UNCHANGED <<fetchVars, chunkVars, indexVars, upsertVars, walkVars, raceVars, scrapeVars, queryVars>>

\* data_prep copy.py line 139: return df.dropna(subset=['values']); the rows
\* create_embeddings.py line 82 passes to upsert_data.
DropRowsWithoutValues ==
    /\ corpusPc = "embedding"
    /\ embedI = Len(cdf)
    /\ cdf' = SelectSeq(cdf, HasValues)
    /\ corpusPc' = "embedded"
    /\ UNCHANGED <<csvRows, model_emb, overwrite, embedI, embedCalls>>
    /\ UNCHANGED <<fetchVars, chunkVars, indexVars, upsertVars, walkVars, raceVars, scrapeVars, queryVars>>

NextCorpus ==
    \/ ImportCsv
    \/ CleanData
    \/ StartEmbeddings
    \/ EmbedRow
    \/ DropRowsWithoutValues

SpecCorpus == InitCorpus /\ [][NextCorpus]_vars

(***************************************************************************)
(* create_embeddings.py main as a whole (lines 36-88): the index block,    *)
(* the steps of SpecCorpus, then upsert_data. corpusPc is main's position; *)
(* "index_error", "failed" and "upsert_error" are the returns of lines 49, *)
(* 58-77 and 85, "crashed" an exception that leaves main.                  *)
(***************************************************************************)
\* The interchange files of the whole run.
IngestFiles ==
    CsvFiles(SeqsUpTo([content : {EmptyText, ShortText, LongText}, is_internal : {"False"}],
                      MaxFileRows))

InitIngest ==
    /\ csvRows \in IngestFiles
    /\ model_emb \in EmbeddingModels
    /\ overwrite \in BOOLEAN
    /\ cdf = <<>>
    /\ embedI = 0
    /\ corpusPc = "get_index"
    /\ embedCalls = <<>>
    /\ pinecone = "None"
    /\ svcIndexes \in [IndexNames -> {0, 1}]
    /\ svcRecords \in [IndexNames -> {{}, OldRecords}]
    /\ \A n \in IndexNames :
          /\ svcIndexes[n] = 0 => svcRecords[n] = {}
          /\ n # INDEX_NAME => svcIndexes[n] = 0
    /\ getLog = [n \in IndexNames |-> <<>>]
    /\ lastDelete = <<>>
    /\ IdleChunk /\ IdleUpsert /\ IdleWalk /\ IdleScrape /\ IdleQuery
    /\ IdleFetch
    /\ IdleRace

\* lines 39 and 43: index, index_created = get_pinecone_index(INDEX_NAME); an
\* exception is caught at line 47 and main returns.
MainGetIndex(at, then) ==
    /\ corpusPc = at
    /\ \E keySet \in BOOLEAN, listing \in Outcomes, creating \in Outcomes :
          get_pinecone_index(INDEX_NAME, keySet, listing, creating)
    /\ LET outcome == getLog'[INDEX_NAME][Len(getLog'[INDEX_NAME])]
       IN  IF outcome \in {"created", "existing"}
           THEN /\ index' = INDEX_NAME
                /\ corpusPc' = then
           ELSE /\ index' = index
                /\ corpusPc' = "index_error"
    /\ UNCHANGED <<dfLen, rowI, prepped, upsertCalls, upsertOutcomes, upsertPc>>
    /\ UNCHANGED <<csvRows, model_emb, overwrite, cdf, embedI, embedCalls>>
    /\ UNCHANGED <<fetchVars, chunkVars, walkVars, raceVars, scrapeVars, queryVars>>

\* line 39, and line 40: if OVERWRITE.
MainGetIndexFirst ==
    MainGetIndex("get_index",
                 IF overwrite THEN "delete_index" ELSE "describe_index_stats")

\* line 42: delete_pinecone_index(INDEX_NAME).
MainDeleteIndex ==
    /\ corpusPc = "delete_index"
    /\ \E keySet \in BOOLEAN, deleting \in Outcomes :
          delete_pinecone_index(INDEX_NAME, keySet, deleting)
    /\ corpusPc' = IF lastDelete'[1].result = "returned"
                   THEN "get_index_again" ELSE "index_error"
    /\ UNCHANGED upsertVars
    /\ UNCHANGED <<csvRows, model_emb, overwrite, cdf, embedI, embedCalls>>
    /\ UNCHANGED <<fetchVars, chunkVars, walkVars, raceVars, scrapeVars, queryVars>>

\* line 43.
MainGetIndexAgain == MainGetIndex("get_index_again", "import")

\* lines 45-46: stats = index.describe_index_stats(), which may raise.
MainDescribeIndexStats ==
    /\ corpusPc = "describe_index_stats"
    /\ \E describing \in Outcomes :
          corpusPc' = IF describing = "ok" THEN "import" ELSE "index_error"
    /\ UNCHANGED <<csvRows, model_emb, overwrite, cdf, embedI, embedCalls>>
    /\ UNCHANGED <<fetchVars, chunkVars, indexVars, upsertVars, walkVars, raceVars, scrapeVars, queryVars>>

\* line 82: upsert_data(index, df) is called.
MainUpsertData ==
    /\ corpusPc = "embedded"
    /\ index # "None"
    /\ corpusPc' = "upsert"
    /\ dfLen' = Len(cdf)
    /\ rowI' = 0
    /\ prepped' = <<>>
    /\ upsertCalls' = <<>>
    /\ upsertOutcomes' = <<>>
    /\ upsertPc' = "loop"
    /\ UNCHANGED index
    /\ UNCHANGED <<csvRows, model_emb, overwrite, cdf, embedI, embedCalls>>
    /\ UNCHANGED <<fetchVars, chunkVars, indexVars, walkVars, raceVars, scrapeVars, queryVars>>

\* lines 83-88: upsert_data has returned or raised; the exception is caught
\* and main returns; line 87 is outside any try.
MainUpsertReturn ==
    /\ corpusPc = "upsert"
    /\ upsertPc # "loop"
    /\ \E describing \in Outcomes :
          corpusPc' = IF upsertPc # "done" THEN "upsert_error"
                      ELSE IF describing = "ok" THEN "done" ELSE "crashed"
    /\ UNCHANGED <<csvRows, model_emb, overwrite, cdf, embedI, embedCalls>>
    /\ UNCHANGED <<fetchVars, chunkVars, indexVars, upsertVars, walkVars, raceVars, scrapeVars, queryVars>>

NextIngest ==
    \/ MainGetIndexFirst
    \/ MainDeleteIndex
    \/ MainGetIndexAgain
    \/ MainDescribeIndexStats
    \/ ImportCsv
    \/ CleanData
    \/ StartEmbeddings
    \/ EmbedRow
    \/ DropRowsWithoutValues
    \/ MainUpsertData
    \/ UpsertRow
    \/ UpsertRemaining
    \/ MainUpsertReturn

SpecIngest == InitIngest /\ [][NextIngest]_vars

\* The ingest run, or a client calling delete_pinecone_index and
\* get_pinecone_index directly.
SpecOverwrite == (InitIngest \/ InitIndex) /\ [][NextIngest \/ NextIndex]_vars

(***************************************************************************)
(* The query path: streamlit_app.py (and the copies of it in               *)
(* app_confluence.py lines 453-542 and unnamed/part_000), initialize_      *)
(* pinecone (lines 35-60), extract_info (62-79) and main(query) (81-108).  *)
(* The process answers one query after another; index and df (cdf) are     *)
(* its module globals. queryResult is <<>> while main runs and <<r>> once  *)
(* it has ended: r.kind is what came out of main, r.failed the call that   *)
(* failed ("none": no call failed). recordsAtStart is what the index held  *)
(* when the query came in: <<>> for no index, <<records>> otherwise.       *)
(***************************************************************************)
MaxQueries == 2
MaxMatches == 2

\* streamlit_app.py line 28: the default of PINECONE_INDEX_NAME.
QUERY_INDEX_NAME == "test1"
\* line 88: top_k.
TopK == 3
\* line 66: the default of CONFLUENCE_BASE_URL.
CONFLUENCE_BASE_URL == "https://pickme.atlassian.net/wiki"

\* The metadata of a match; "missing" is a key the metadata does not have.
MatchSet ==
    {[page_id |-> "123", source |-> "https://tiny/123", title |-> "Home", score |-> 9],
     [page_id |-> "456", source |-> "missing", title |-> "Guide", score |-> 8],
     [page_id |-> "missing", source |-> "https://tiny/abc", title |-> "missing", score |-> 7],
     [page_id |-> "", source |-> "https://tiny/def", title |-> "FAQ", score |-> 6],
     [page_id |-> "missing", source |-> "missing", title |-> "Notes", score |-> 5]}

\* line 71 as 'if page_id is not None'.
PageIdPresentNotNone(page_id) == page_id # "missing"

\* line 71: if page_id (None and '' are falsy).
PageIdPresent(page_id) == page_id # "missing" /\ page_id # ""

\* line 72: f"{confluence_base_url}/spaces/BDDS/pages/{page_id}".
CanonicalUrl(page_id) == <<CONFLUENCE_BASE_URL, "/spaces/BDDS/pages/", page_id>>

\* line 74: match['metadata']['source'] raises KeyError without the key.
MatchRaises(match) == ~PageIdPresent(match.page_id) /\ match.source = "missing"

\* lines 68-75: the tuple (source, title, score) of one match.
MatchInfo(match) ==
    [source |-> IF PageIdPresent(match.page_id) THEN CanonicalUrl(match.page_id)
                ELSE <<match.source>>,
     title |-> IF match.title = "missing" THEN "No title" ELSE match.title,
     score |-> match.score]

\* lines 62-79: extract_info(data); an exception in the loop gives [].
extract_info(matches) ==
    IF \E k \in 1..Len(matches) : MatchRaises(matches[k]) THEN <<>>
    ELSE [k \in 1..Len(matches) |-> MatchInfo(matches[k])]

\* line 42: if total_vectors == 0 or index_created.
NeedsIngestOnlyWhenCreated(total, created) == created

NeedsIngest(total, created) == total = 0 \/ created

\* lines 83 and 106 without the try.
MainCatchesNothing(call) == FALSE

\* lines 83 and 106-108: the try of main encloses every call it makes.
MainCatches(call) == TRUE

\* What get_embeddings and get_chat_completion_messages do: they return
\* their result, return an error sentinel, or raise.
ModelResponses == {"result", "error sentinel", "raise"}

\* line 86: initialize_pinecone returned False, main returns its message.
InitFailed(call) ==
    [kind |-> "Error: Failed to initialize Pinecone", failed |-> call,
     response |-> "none", sources |-> <<>>]

\* lines 106-108: an exception of call in main: the message is returned, or
\* the exception leaves main.
MainFailed(call) ==
    [kind |-> IF MainCatches(call) THEN "An error occurred" ELSE "exception",
     failed |-> call, response |-> "none", sources |-> <<>>]

Return(r) ==
    /\ queryResult' = <<r>>
    /\ queryPc' = "ready"

\* The responses of the chunks of each row of df; for a file of more than
\* MaxFileRows rows every request is answered with the same vector.
RowResponses(df) ==
    IF Len(df) > MaxFileRows
    THEN {[i \in 1..Len(df) |->
              [k \in 1..NumChunks(df[i].metadata.text) |->
                  [kind |-> "vector", dim |-> ModelDim(model_emb), head |-> <<1, 0>>]]]}
    ELSE {outs \in [1..Len(df) -> SeqsUpTo(EmbeddingResponses(model_emb), 2)] :
             \A i \in 1..Len(df) : Len(outs[i]) = NumChunks(df[i].metadata.text)}

\* data_prep copy.py lines 96-139: generate_embeddings_and_add_to_df as a
\* whole, the chunks of row i getting the responses outs[i].
generate_embeddings_and_add_to_df(df, outs) ==
    SelectSeq([i \in 1..Len(df) |->
                  [index |-> df[i].index, id |-> df[i].id, metadata |-> df[i].metadata,
                   values |-> EmbedValues([index |-> df[i].index, id |-> df[i].id,
                                           metadata |-> df[i].metadata,
                                           values |-> <<>>], outs[i])]],
              HasValues)

\* The interchange files at CSV_FILE: no row, a row without content, rows
\* with content, and a file of one row more than a batch of upsert_data.
QueryFiles ==
    LET Row(c) == [content |-> c, is_internal |-> "False"]
    IN  {WithIds(f, [i \in 1..Len(f) |-> i]) :
            f \in {<<>>, <<Row(EmptyText)>>, <<Row(ShortText), Row(EmptyText)>>,
                   <<Row(ShortText), Row(LongText)>>,
                   [i \in 1..(BatchSize + 1) |-> Row(ShortText)]}}

InitQuery ==
    /\ queryPc = "ready"
    /\ queryN = 0
    /\ index_created = FALSE
    /\ total_vectors = 0
    /\ ingest = "not run"
    /\ recordsAtStart = <<>>
    /\ res = <<>>
    /\ queryResult = <<>>
    /\ csvRows \in QueryFiles
    /\ model_emb = "text-embedding-3-small"
    /\ overwrite = FALSE
    /\ cdf = <<>>
    /\ embedI = 0
    /\ corpusPc = "idle"
    /\ embedCalls = <<>>
    /\ pinecone = "None"
    /\ svcIndexes \in [IndexNames -> {0, 1}]
    /\ svcRecords \in [IndexNames -> {{}, OldRecords}]
    /\ \A n \in IndexNames :
          /\ svcIndexes[n] = 0 => svcRecords[n] = {}
          /\ n # QUERY_INDEX_NAME => svcIndexes[n] = 0
    /\ getLog = [n \in IndexNames |-> <<>>]
    /\ lastDelete = <<>>
    /\ IdleChunk /\ IdleUpsert /\ IdleWalk /\ IdleScrape
    /\ IdleFetch
    /\ IdleRace

\* lines 81-85: main(query) is called and calls initialize_pinecone.
QueryStart ==
    /\ queryPc = "ready"
    /\ queryN < MaxQueries
    /\ queryN' = queryN + 1
    /\ queryPc' = "get_index"
    /\ index_created' = FALSE
    /\ total_vectors' = 0
    /\ ingest' = "not run"
    /\ recordsAtStart' = IF svcIndexes[QUERY_INDEX_NAME] = 0 THEN <<>>
                         ELSE <<svcRecords[QUERY_INDEX_NAME]>>
    /\ res' = <<>>
    /\ queryResult' = <<>>
    /\ dfLen' = 0 /\ rowI' = 0 /\ prepped' = <<>> /\ upsertCalls' = <<>>
    /\ upsertOutcomes' = <<>> /\ upsertPc' = "idle"
    /\ UNCHANGED index
    /\ UNCHANGED <<fetchVars, chunkVars, indexVars, walkVars, raceVars, scrapeVars, corpusVars>>

\* line 39: index, index_created = get_pinecone_index(INDEX_NAME); an
\* exception is caught at line 58.
QueryGetIndex ==
    /\ queryPc = "get_index"
    /\ \E keySet \in BOOLEAN, listing \in Outcomes, creating \in Outcomes :
          get_pinecone_index(QUERY_INDEX_NAME, keySet, listing, creating)
    /\ LET outcome == getLog'[QUERY_INDEX_NAME][Len(getLog'[QUERY_INDEX_NAME])]
       IN  IF outcome \in {"created", "existing"}
           THEN /\ index' = QUERY_INDEX_NAME
                /\ index_created' = (outcome = "created")
                /\ queryPc' = "describe_index_stats"
                /\ UNCHANGED queryResult
           ELSE /\ Return(InitFailed("get_pinecone_index"))
                /\ UNCHANGED <<index, index_created>>
    /\ UNCHANGED <<queryN, total_vectors, ingest, recordsAtStart, res>>
    /\ UNCHANGED <<dfLen, rowI, prepped, upsertCalls, upsertOutcomes, upsertPc>>
    /\ UNCHANGED <<fetchVars, chunkVars, walkVars, raceVars, scrapeVars, corpusVars>>

\* lines 40-42: the vector count the index reports, and the test for the
\* ingest; an exception of describe_index_stats is caught at line 58.
QueryDescribeIndexStats ==
    /\ queryPc = "describe_index_stats"
    /\ \E describing \in Outcomes :
          IF describing = "error"
          THEN /\ Return(InitFailed("describe_index_stats"))
               /\ UNCHANGED total_vectors
          ELSE /\ total_vectors' = Cardinality(svcRecords[index])
               /\ queryPc' = IF NeedsIngest(total_vectors', index_created)
                             THEN "ingest" ELSE "get_embeddings"
               /\ UNCHANGED queryResult
    /\ UNCHANGED <<queryN, index_created, ingest, recordsAtStart, res>>
    /\ UNCHANGED <<fetchVars, chunkVars, indexVars, upsertVars, walkVars, raceVars, scrapeVars, corpusVars>>

\* lines 43-49: import_csv, clean_data_pinecone_schema and
\* generate_embeddings_and_add_to_df, then upsert_data is called; an
\* exception (unreadable or empty file, no row with content) is caught at
\* line 54.
QueryIngest ==
    /\ queryPc = "ingest"
    /\ \E reading \in Outcomes :
          LET imported == import_csv(csvRows, MaxRowsRead)
              cleaned == clean_data_pinecone_schema(imported)
          IN  IF reading = "error" \/ imported = <<>> \/ cleaned = <<>>
              THEN /\ Return(InitFailed(IF reading = "error" \/ imported = <<>>
                                        THEN "import_csv"
                                        ELSE "clean_data_pinecone_schema"))
                   /\ ingest' = "failed"
                   /\ cdf' = <<>>
                   /\ UNCHANGED <<embedCalls, upsertVars>>
              ELSE \E outs \in RowResponses(cleaned) :
                      /\ cdf' = generate_embeddings_and_add_to_df(cleaned, outs)
                      /\ embedCalls' =
                            Flatten([i \in 1..Len(cleaned) |->
                                        EmbedRequests(cleaned[i], outs[i])])
                      /\ ingest' = "started"
                      /\ queryPc' = "upsert"
                      /\ dfLen' = Len(cdf')
                      /\ rowI' = 0
                      /\ prepped' = <<>>
                      /\ upsertCalls' = <<>>
                      /\ upsertOutcomes' = <<>>
                      /\ upsertPc' = "loop"
                      /\ UNCHANGED <<index, queryResult>>
    /\ UNCHANGED <<queryN, index_created, total_vectors, recordsAtStart, res>>
    /\ UNCHANGED <<csvRows, model_emb, overwrite, embedI, corpusPc>>
    /\ UNCHANGED <<fetchVars, chunkVars, indexVars, walkVars, raceVars, scrapeVars>>

\* lines 49-57: upsert_data has returned or raised; the count is read again
\* and a count of 0 raises; an exception is caught at line 54.
QueryVerifyUpload ==
    /\ queryPc = "upsert"
    /\ upsertPc # "loop"
    /\ \E describing \in Outcomes :
          LET failed == IF upsertPc # "done" THEN "upsert_data"
                        ELSE IF describing = "error"
                        THEN "describe_index_stats after upsert_data"
                        ELSE IF Cardinality(svcRecords[index]) = 0
                        THEN "total_vector_count == 0"
                        ELSE "none"
          IN  IF failed # "none"
              THEN /\ Return(InitFailed(failed))
                   /\ ingest' = "failed"
              ELSE /\ ingest' = "done"
                   /\ queryPc' = "get_embeddings"
                   /\ UNCHANGED queryResult
    /\ UNCHANGED <<queryN, index_created, total_vectors, recordsAtStart, res>>
    /\ UNCHANGED <<fetchVars, chunkVars, indexVars, upsertVars, walkVars, raceVars, scrapeVars, corpusVars>>

\* lines 87-88: get_embeddings(query, model); the sentinel has no .data, so
\* line 88 raises for it.
QueryGetEmbeddings ==
    /\ queryPc = "get_embeddings"
    /\ \E embed \in ModelResponses :
          IF embed = "result"
          THEN /\ queryPc' = "query"
               /\ UNCHANGED queryResult
          ELSE Return(MainFailed("get_embeddings"))
    /\ UNCHANGED <<queryN, index_created, total_vectors, ingest, recordsAtStart, res>>
    /\ UNCHANGED <<fetchVars, chunkVars, indexVars, upsertVars, walkVars, raceVars, scrapeVars, corpusVars>>

\* line 88: res = index.query(vector, top_k=3, include_metadata=True): at
\* most top_k matches, no more than the index holds records.
QueryIndexQuery ==
    /\ queryPc = "query"
    /\ \E querying \in Outcomes :
          IF querying = "error"
          THEN /\ Return(MainFailed("index.query"))
               /\ UNCHANGED res
          ELSE /\ \E matches \in SeqsUpTo(MatchSet,
                        Min({TopK, MaxMatches, Cardinality(svcRecords[index])})) :
                     res' = matches
               /\ queryPc' = "chat"
               /\ UNCHANGED queryResult
    /\ UNCHANGED <<queryN, index_created, total_vectors, ingest, recordsAtStart>>
    /\ UNCHANGED <<fetchVars, chunkVars, indexVars, upsertVars, walkVars, raceVars, scrapeVars, corpusVars>>

\* lines 89-105: the prompt, the chat completion, extract_info and the
\* final output: the response followed by the list of sources.
QueryAnswer ==
    /\ queryPc = "chat"
    /\ \E response \in ModelResponses :
          IF response = "raise"
          THEN Return(MainFailed("get_chat_completion_messages"))
          ELSE Return([kind |-> "final_output",
                       failed |-> IF response = "result" THEN "none"
                                  ELSE "get_chat_completion_messages",
                       response |-> response,
                       sources |-> extract_info(res)])
    /\ UNCHANGED <<queryN, index_created, total_vectors, ingest, recordsAtStart, res>>
    /\ UNCHANGED <<fetchVars, chunkVars, indexVars, upsertVars, walkVars, raceVars, scrapeVars, corpusVars>>

NextQuery ==
    \/ QueryStart
    \/ QueryGetIndex
    \/ QueryDescribeIndexStats
    \/ QueryIngest
    \/ UpsertRow
    \/ UpsertRemaining
    \/ QueryVerifyUpload
    \/ QueryGetEmbeddings
    \/ QueryIndexQuery
    \/ QueryAnswer

SpecQuery == InitQuery /\ [][NextQuery]_vars

Cleaned == corpusPc \in {"cleaned", "embedding", "embedded"}

\* C7 as stated: every row that survives import_csv and
\* clean_data_pinecone_schema, and every row embedded, has non-empty content
\* and is not marked is_internal in the interchange file.
C7_SurvivorsHaveContentAndAreNotInternal ==
    Cleaned =>
        /\ \A i \in 1..Len(cdf) :
              /\ TextPresent(cdf[i].metadata.text)
              /\ csvRows[cdf[i].index].is_internal # "True"
        /\ \A k \in 1..Len(embedCalls) :
              /\ csvRows[embedCalls[k].index].content # EmptyText
              /\ csvRows[embedCalls[k].index].is_internal # "True"

\* C7 as amended: every row that survives import_csv and
\* clean_data_pinecone_schema has non-empty content, and no embedding is
\* requested for, and no row returned for upsert from, a file row with empty
\* content; is_internal is not read and drops no row.
C7_SurvivorsHaveContent ==
    Cleaned =>
        /\ \A i \in 1..Len(cdf) :
              /\ TextPresent(cdf[i].metadata.text)
              /\ csvRows[cdf[i].index].content # EmptyText
        /\ \A k \in 1..Len(embedCalls) :
              csvRows[embedCalls[k].index].content # EmptyText

\* C7 witness: a file holding a row of empty content and a row marked
\* is_internal went through: the marked row was embedded and is returned.
C7_Witness ==
    /\ corpusPc = "embedded"
    /\ \E i \in 1..Len(csvRows) : csvRows[i].content = EmptyText
    /\ \E i \in 1..Len(cdf) : csvRows[cdf[i].index].is_internal = "True"
    /\ embedCalls # <<>>

\* C8: every row generate_embeddings_and_add_to_df returns has a non-null
\* vector whose length is the dimension the index was created with.
C8_ReturnedRowsHaveIndexSizedVector ==
    corpusPc = "embedded" =>
        \A i \in 1..Len(cdf) :
            /\ cdf[i].values # <<>>
            /\ cdf[i].values[1].dim = IndexDimension

\* The create_embeddings requests made for a document, and those among them
\* that returned a vector.
RequestsOf(row) == {k \in 1..Len(embedCalls) : embedCalls[k].index = row}
VectorRequestsOf(row) ==
    {k \in RequestsOf(row) : embedCalls[k].response.kind = "vector"}
RaisedFor(row) == \E k \in RequestsOf(row) : embedCalls[k].response.kind = "raise"

\* The sum of component c of the vectors returned by the requests K.
ComponentSum(K, c) ==
    SumSeq([k \in 1..Len(embedCalls) |->
               IF k \in K THEN embedCalls[k].response.head[c] ELSE 0])

\* v is the element-wise arithmetic mean of the vectors returned by K: each
\* component, a fraction num/den, times the number of vectors is their sum.
IsMeanOf(v, K) ==
    /\ \A k \in K : embedCalls[k].response.dim = v.dim
    /\ \A c \in 1..Len(v.head) :
          /\ v.head[c][2] > 0
          /\ v.head[c][1] * Cardinality(K) = ComponentSum(K, c) * v.head[c][2]

\* The vector with the integer components h, as stored.
Stored(dim, h) == [dim |-> dim, head |-> [c \in 1..Len(h) |-> <<h[c], 1>>]]

Embedding == corpusPc \in {"embedding", "embedded"}

\* C12: the vector stored for a document is the element-wise arithmetic mean
\* of the chunk vectors returned for it: one returned vector is stored
\* unchanged, and [1,0] and [3,0] give [2,0]; a document whose requests all
\* returned, one of them with a vector, has a vector stored.
C12_StoredVectorIsMeanOfChunkVectors ==
    Embedding =>
        \A i \in 1..Len(cdf) :
            LET K == VectorRequestsOf(cdf[i].index)
            IN  /\ HasValues(cdf[i]) =>
                      /\ K # {}
                      /\ IsMeanOf(cdf[i].values[1], K)
                      /\ \A k \in K : K = {k} =>
                             cdf[i].values[1] = Stored(embedCalls[k].response.dim,
                                                       embedCalls[k].response.head)
                      /\ {embedCalls[k].response.head : k \in K} = {<<1, 0>>, <<3, 0>>}
                            /\ Cardinality(K) = 2
                            => cdf[i].values[1].head = <<<<2, 1>>, <<0, 1>>>>
                /\ (K # {} /\ ~RaisedFor(cdf[i].index)) => HasValues(cdf[i])

\* C12 witness: a document of two chunks whose vectors were [1,0] and [3,0]
\* has [2,0] stored, and a document of one chunk has its vector stored.
C12_Witness ==
    /\ corpusPc = "embedded"
    /\ \E i \in 1..Len(cdf) :
          /\ {embedCalls[k].response.head : k \in VectorRequestsOf(cdf[i].index)}
                = {<<1, 0>>, <<3, 0>>}
          /\ cdf[i].values[1].head = <<<<2, 1>>, <<0, 1>>>>
    /\ \E i \in 1..Len(cdf) :
          /\ Cardinality(RequestsOf(cdf[i].index)) = 1
          /\ HasValues(cdf[i])

\* C13: a document with at least one chunk embedded successfully is returned
\* with a vector, however the requests of its other chunks failed.
C13_OneEmbeddedChunkKeepsDocument ==
    corpusPc = "embedded" =>
        \A row \in 1..Len(csvRows) :
            VectorRequestsOf(row) # {} =>
                \E i \in 1..Len(cdf) : cdf[i].index = row /\ HasValues(cdf[i])

\* No call of the index block failed: the API key is set and the service
\* answered each call, delete_index raising only for an index it does not hold.
NoIndexFault ==
    /\ \A n \in IndexNames : \A k \in 1..Len(getLog[n]) : Returned(getLog[n][k])
    /\ lastDelete # <<>> => lastDelete[1].svc \in {"ok", "NotFound"}

AfterIndexBlock ==
    corpusPc \in {"import", "imported", "cleaned", "embedding", "embedded", "failed"}
Upserting == corpusPc \in {"upsert", "upsert_error", "done", "crashed"}

PastIngestTest ==
    \/ queryPc \in {"ingest", "upsert", "get_embeddings", "query", "chat"}
    \/ /\ queryPc = "ready"
       /\ queryResult # <<>>
       /\ queryResult[1].failed \notin {"get_pinecone_index", "describe_index_stats"}
IngestStarted == queryPc = "ingest" \/ ingest # "not run"

\* C16: on every query the ingest is run if and only if the index reported
\* zero vectors or was created by this call, that is if and only if the
\* query found no index or an empty one; a query that finds an index with at
\* least one vector issues no upsert call and leaves the index as it was.
C16_IngestIffEmptyOrCreated ==
    /\ PastIngestTest =>
          /\ IngestStarted <=> (total_vectors = 0 \/ index_created)
          /\ IngestStarted <=> (recordsAtStart = <<>> \/ recordsAtStart = <<{}>>)
          /\ index_created <=> recordsAtStart = <<>>
    /\ ~PastIngestTest => ~IngestStarted
    /\ (queryN > 0 /\ recordsAtStart # <<>> /\ recordsAtStart # <<{}>>) =>
          /\ upsertCalls = <<>>
          /\ svcIndexes[QUERY_INDEX_NAME] = 1
          /\ svcRecords[QUERY_INDEX_NAME] = recordsAtStart[1]

\* C16 witness: a first query found no vectors and ran the ingest; the next
\* query found the vectors of that ingest, ran no ingest and was answered.
C16_Witness ==
    /\ queryN = 2
    /\ queryPc = "ready"
    /\ queryResult # <<>> /\ queryResult[1].kind = "final_output"
    /\ ingest = "not run"
    /\ recordsAtStart # <<>> /\ recordsAtStart[1] # {}
    /\ \A r \in recordsAtStart[1] : r.run = "new"

\* C17: whatever external call of the query path fails, main(query) ends by
\* returning a string, never by an exception: one of its two error messages,
\* or the output built around the error sentinel of the chat completion.
C17_QueryFailureReturnsErrorString ==
    queryResult # <<>> =>
        /\ queryResult[1].kind \in {"Error: Failed to initialize Pinecone",
                                    "An error occurred", "final_output"}
        /\ queryResult[1].failed # "none" =>
              \/ queryResult[1].kind \in {"Error: Failed to initialize Pinecone",
                                          "An error occurred"}
              \/ queryResult[1].response = "error sentinel"
        /\ queryResult[1].failed \in {"get_embeddings", "index.query"} =>
              queryResult[1].kind = "An error occurred"

\* C17 witness: the chat completion raised after the retrieval returned
\* matches, and main returned its error message.
C17_Witness ==
    /\ queryResult # <<>>
    /\ queryResult[1].failed = "get_chat_completion_messages"
    /\ queryResult[1].kind = "An error occurred"
    /\ res # <<>>

\* C18: when a match lacks the metadata fields of its attribution, the other
\* matches of the query are still in the returned list of sources.
C18_OtherMatchesStillAttributed ==
    (queryResult # <<>> /\ queryResult[1].kind = "final_output") =>
        \A k \in 1..Len(res) :
            (res[k].page_id \in {"missing", ""} /\ res[k].source = "missing")
            \/ \E j \in 1..Len(queryResult[1].sources) :
                  /\ queryResult[1].sources[j].title \in {res[k].title, "No title"}
                  /\ queryResult[1].sources[j].score = res[k].score

\* C19: the source of each returned attribution is base URL +
\* /spaces/BDDS/pages/ + page_id when the match's metadata has a non-empty
\* page_id and the literal metadata['source'] otherwise; when no match lacks
\* both, every match has its attribution, in order.
C19_SourceUrlResolution ==
    (queryResult # <<>> /\ queryResult[1].kind = "final_output") =>
        LET sources == queryResult[1].sources
        IN  /\ sources = <<>> \/ Len(sources) = Len(res)
            /\ \A k \in 1..Len(sources) :
                  sources[k].source =
                      IF res[k].page_id \notin {"missing", ""}
                      THEN <<"https://pickme.atlassian.net/wiki", "/spaces/BDDS/pages/",
                             res[k].page_id>>
                      ELSE <<res[k].source>>
            /\ (\A k \in 1..Len(res) :
                   res[k].page_id \notin {"missing", ""} \/ res[k].source # "missing")
                => Len(sources) = Len(res)

\* C19 witness: an answer with two attributions, one built from the page id
\* and one taken from the stored source of a match with an empty page_id.
C19_Witness ==
    /\ queryResult # <<>> /\ queryResult[1].kind = "final_output"
    /\ Len(queryResult[1].sources) = 2
    /\ \E k \in 1..2 : res[k].page_id = "123"
    /\ \E k \in 1..2 : res[k].page_id = "" /\ queryResult[1].sources[k].source = <<res[k].source>>

\* The pages whose label request got the answer a.
LabelAnswered(a) ==
    {scrapeLog[k].page_id : k \in {x \in 1..Len(scrapeLog) :
        scrapeLog[x].call = "labels" /\ scrapeLog[x].response = a}}

SentRecords ==
    UNION {{Prepped(upsertCalls[k][j]) : j \in 1..Len(upsertCalls[k])} :
              k \in 1..Len(upsertCalls)}

\* C21: every record this run sends to the index, and every record of this
\* run the index holds, has metadata whose page_id is the record's id.
C21_PageIdEqualsId ==
    /\ \A r \in SentRecords : r.page_id = r.id
    /\ \A r \in svcRecords[INDEX_NAME] : r.run = "new" => r.page_id = r.id

\* C21 witness: the run ended with records of two documents upserted.
C21_Witness ==
    /\ corpusPc = "done"
    /\ Cardinality(SentRecords) = 2
    /\ SentRecords \subseteq svcRecords[INDEX_NAME]

\* C22: the rows main passes to upsert_data carry pairwise different ids.
C22_UpsertedIdsUnique ==
    Upserting => \A i, j \in 1..Len(cdf) : i # j => cdf[i].id # cdf[j].id

\* The sentences of the k-th returned chunk.
ChunkSentences(k) == Split(RemoveAppendedPeriod(chunks[k]))

\* The estimated size of the chunk the sentences parts make: len//4 of the
\* joined text.
EstimatedSize(parts) == Len(Join(parts)) \div 4

\* C23: a chunk is closed before a sentence exactly when the chunk with that
\* sentence added would have an estimated size len//4 over max_chunk_size,
\* and a sentence whose own estimate is over the budget is alone in its chunk.
C23_ClosesExactlyOnOverflow ==
    chunkPc = "done" =>
        \A k \in 1..Len(chunks) :
            LET parts == ChunkSentences(k)
            IN  /\ \A j \in 2..Len(parts) :
                      EstimatedSize(SubSeq(parts, 1, j)) <= max_chunk_size
                /\ k < Len(chunks) =>
                      EstimatedSize(Append(parts, ChunkSentences(k + 1)[1])) > max_chunk_size
                /\ (\E j \in 1..Len(parts) : SentenceSize(Len(parts[j])) > max_chunk_size)
                      => Len(parts) = 1

\* C24, for the embedding loops: once generate_embeddings_and_add_to_df has
\* returned, every row of the cleaned DataFrame that has text had each of
\* its chunks requested exactly once, whatever the other requests gave.
C24_EveryChunkAttemptedOnce ==
    corpusPc = "embedded" =>
        \A row \in 1..Len(csvRows) :
            ContentValid([content |-> ReadCell(csvRows[row].content)]) =>
                \A c \in 1..NumChunks(csvRows[row].content) :
                    Cardinality({k \in RequestsOf(row) : embedCalls[k].chunk = c}) = 1

\* The listing calls made by the fetch loop of fetch_all_pages.
LoopCalls == {k \in 1..Len(listLog) : listLog[k].loop}

\* C25: no listing call of the fetch loop asks for more than max_chunk_size
\* (200) pages, and a response holding fewer pages than were asked for is
\* the last call: fetch_all_pages has returned.
C25_ChunkedListingStopsOnShortResponse ==
    \A k \in LoopCalls :
        /\ listLog[k].limit <= FetchMaxChunkSize
        /\ (listLog[k].kind = "results" /\ listLog[k].count < listLog[k].limit) =>
              /\ k = Len(listLog)
              /\ fetchPc = "returned"

\* C25 witness: with more than a chunk asked for, a full chunk of 200 pages
\* was followed by a response of fewer pages, and the loop stopped there.
C25_Witness ==
    /\ fetchPc = "returned"
    /\ Len(listLog) = 3
    /\ listLog[2].limit = FetchMaxChunkSize /\ listLog[2].count = FetchMaxChunkSize
    /\ listLog[3].kind = "results"
    /\ listLog[3].count > 0 /\ listLog[3].count < listLog[3].limit
    /\ limit > FetchMaxChunkSize

\* Each response of the fetch loop held as many pages as were asked for, or
\* all that remained in the space.
ResponsesFullOrAllRemaining ==
    \A k \in LoopCalls :
        /\ listLog[k].kind = "results"
        /\ listLog[k].count = Len(Listing(listLog[k].start, listLog[k].limit))

\* The limit fetch_all_pages was called with: what is left of it and what
\* has been taken off it.
LimitAtCall == limit + start

\* C30: called with an empty list, start 0 and a limit L >= 1 on a space of
\* N pages whose responses are full or hold all that remains,
\* fetch_all_pages returns, and what it returns is the first min(L, N) pages
\* of the listing, each once and in order.
C30_ReturnsFirstPagesInOrder ==
    /\ [](fetchPc = "returned" /\ ResponsesFullOrAllRemaining =>
            /\ fetchResult = "all_pages"
            /\ all_pages = [i \in 1..Min({LimitAtCall, spacePages}) |-> i])
    /\ <>(fetchPc = "returned")

\* C30 witness: a space of 400 pages and a limit of 400, both multiples of
\* the chunk size: two full chunks were fetched and 400 pages returned.
C30_Witness ==
    /\ fetchPc = "returned"
    /\ ResponsesFullOrAllRemaining
    /\ spacePages = FetchMaxChunkSize + FetchMaxChunkSize
    /\ LimitAtCall = spacePages
    /\ Len(all_pages) = spacePages
    /\ Cardinality(LoopCalls) = 2

\* The requests of one kind the scraper has made, as positions of scrapeLog.
ScrapeCalls(kind) == {k \in 1..Len(scrapeLog) : scrapeLog[k].call = kind}

\* C28: every label request of a run comes before every content request;
\* when a content request is made every listed page has had its label
\* request; and no content request is made for a page whose label request
\* was answered with internal_only.
C28_LabelsBeforeContent ==
    LET internal == LabelAnswered("internal_only")
    IN  /\ \A k \in 1..(Len(scrapeLog) - 1) :
              scrapeLog[k].call = "content" => scrapeLog[k + 1].call = "content"
        /\ (scrapeLog # <<>> /\ scrapeLog[Len(scrapeLog)].call = "content") =>
              /\ fetchResult = "all_pages"
              /\ LabelRequested = {all_pages[i] : i \in 1..Len(all_pages)}
        /\ \A j \in 1..Len(scrapeLog) :
              scrapeLog[j].call = "content" => scrapeLog[j].page_id \notin internal

\* C28 witness: the run ended with the CSV written; one page was answered
\* internal_only and had no content request, another had its content
\* requested.
C28_Witness ==
    /\ scrapePc = "done"
    /\ LabelAnswered("internal_only") # {}
    /\ ScrapeCalls("content") # {}
    /\ Cardinality(ScrapeCalls("labels")) = Len(all_pages)

\* A listing request of the fetch loop has failed.
ListingFailed == \E k \in LoopCalls : listLog[k].kind = "None"

\* C29: when a listing request of the fetch loop fails, fetch_all_pages
\* returns None and main ends there: no DataFrame, no label or content
\* request, nothing written to the CSV file.
C29_FailedListingEndsRun ==
    ListingFailed =>
        /\ fetchPc = "returned"
        /\ fetchResult = "None"
        /\ scrapePc \in {"fetch", "exit"}
        /\ sdf = <<>>
        /\ scrapeLog = <<>>
        /\ csvFile = <<>>

\* C29 witness: the second listing request failed after a full chunk of 200
\* pages had been listed, and main has returned without a CSV file.
C29_Witness ==
    /\ ListingFailed
    /\ Len(all_pages) = FetchMaxChunkSize
    /\ scrapePc = "exit"
    /\ csvFile = <<>>

\* line 86 of main: initialize_pinecone has returned True for the query that
\* is running or has ended.
InitializedTrue ==
    \/ queryPc \in {"get_embeddings", "query", "chat"}
    \/ /\ queryPc = "ready"
       /\ queryResult # <<>>
       /\ queryResult[1].kind # "Error: Failed to initialize Pinecone"

\* The rows of df, the cleaned and embedded corpus of the last ingest, that
\* the index holds no record of.
RowsNotInIndex ==
    {i \in 1..Len(cdf) : \A r \in svcRecords[index] : r.id # cdf[i].id}

\* C26: over any sequence of queries and ingest failures, initialize_pinecone
\* returns True only when every row of the cleaned, embedded corpus is in the
\* index: after an ingest that committed some but not all of its upsert
\* batches, no later query is answered from the partial index.
C26_AnsweredOnlyFromWholeCorpus ==
    InitializedTrue => RowsNotInIndex = {}

(***************************************************************************)
(* get_pinecone_index run by two requests at once: the webhook of          *)
(* streamlit_app.py (lines 113-130) calls main(query) for each request it  *)
(* is handling, main calls initialize_pinecone and that calls              *)
(* get_pinecone_index(INDEX_NAME) (line 38); nothing on the way takes a    *)
(* lock. Each request goes through pinecone_logic.py lines 31-54 one call  *)
(* to the service at a time; callerPc is the call it makes next, or how    *)
(* its get_pinecone_index ended. createLog is the create_index calls the   *)
(* service has received.                                                   *)
(***************************************************************************)
\* What pinecone.create_index does for a name (lines 45-49): the service
\* refuses a name it already holds, fails otherwise, or creates the index.
create_index(name, creating) ==
    IF IndexExists(name) THEN "already exists"
    ELSE IF creating = "error" THEN "error" ELSE "ok"

InitRace ==
    /\ callerPc = [c \in Callers |-> "called"]
    /\ callerCreated = [c \in Callers |-> FALSE]
    /\ createLog = <<>>
    /\ pinecone \in {"None", "client"}
    /\ svcIndexes \in [IndexNames -> {0, 1}]
    /\ svcRecords \in [IndexNames -> {{}, OldRecords}]
    /\ \A n \in IndexNames :
          /\ svcIndexes[n] = 0 => svcRecords[n] = {}
          /\ n # QUERY_INDEX_NAME => svcIndexes[n] = 0
    /\ getLog = [n \in IndexNames |-> <<>>]
    /\ lastDelete = <<>>
    /\ IdleChunk /\ IdleUpsert /\ IdleWalk /\ IdleScrape /\ IdleCorpus /\ IdleQuery
    /\ IdleFetch

\* lines 32-37: index_created = False; if pinecone is None:
\* initialize_pinecone_client(), which raises without the API key.
RaceEnsureClient(c) ==
    /\ callerPc[c] = "called"
    /\ \E keySet \in BOOLEAN :
          LET client == EnsureClient(keySet)
          IN  IF client = "raise"
              THEN /\ callerPc' = [callerPc EXCEPT ![c] = "raised: api key"]
                   /\ UNCHANGED pinecone
              ELSE /\ callerPc' = [callerPc EXCEPT ![c] = "list_indexes"]
                   /\ pinecone' = client
    /\ callerCreated' = [callerCreated EXCEPT ![c] = FALSE]
    /\ UNCHANGED <<createLog, svcIndexes, svcRecords, getLog, lastDelete>>
    /\ UNCHANGED <<fetchVars, chunkVars, upsertVars, walkVars, scrapeVars, corpusVars, queryVars>>

\* line 39: the request reads the names the service holds and takes the
\* branch of line 40 or that of line 43.
RaceListIndexes(c) ==
    /\ callerPc[c] = "list_indexes"
    /\ \E listing \in Outcomes :
          callerPc' = [callerPc EXCEPT ![c] =
                          IF listing = "error" THEN "raised: list_indexes"
                          ELSE IF IndexExists(QUERY_INDEX_NAME) THEN "Index"
                          ELSE "create_index"]
    /\ UNCHANGED <<callerCreated, createLog, indexVars>>
    /\ UNCHANGED <<fetchVars, chunkVars, upsertVars, walkVars, scrapeVars, corpusVars, queryVars>>

\* lines 44-49: index_created = True and pinecone.create_index(...); its
\* exception leaves get_pinecone_index.
RaceCreateIndex(c) ==
    /\ callerPc[c] = "create_index"
    /\ \E creating \in Outcomes :
          LET svc == create_index(QUERY_INDEX_NAME, creating)
          IN  /\ createLog' = Append(createLog, [caller |-> c, outcome |-> svc])
              /\ callerPc' = [callerPc EXCEPT ![c] =
                                  IF svc = "ok" THEN "Index"
                                  ELSE IF svc = "error" THEN "raised: create_index"
                                  ELSE "raised: already exists"]
              /\ svcIndexes' = IF svc = "ok"
                               THEN [svcIndexes EXCEPT ![QUERY_INDEX_NAME] = @ + 1]
                               ELSE svcIndexes
              /\ svcRecords' = IF svc = "ok"
                               THEN [svcRecords EXCEPT ![QUERY_INDEX_NAME] = {}]
                               ELSE svcRecords
    /\ callerCreated' = [callerCreated EXCEPT ![c] = TRUE]
    /\ UNCHANGED <<pinecone, getLog, lastDelete>>
    /\ UNCHANGED <<fetchVars, chunkVars, upsertVars, walkVars, scrapeVars, corpusVars, queryVars>>

\* lines 42 or 52, and 54: index = pinecone.Index(index_name) and the
\* return of (index, index_created).
RaceReturnIndex(c) ==
    /\ callerPc[c] = "Index"
    /\ callerPc' = [callerPc EXCEPT ![c] = "returned"]
    /\ UNCHANGED <<callerCreated, createLog, indexVars>>
    /\ UNCHANGED <<fetchVars, chunkVars, upsertVars, walkVars, scrapeVars, corpusVars, queryVars>>

NextRace ==
    \E c \in Callers :
       \/ RaceEnsureClient(c)
       \/ RaceListIndexes(c)
       \/ RaceCreateIndex(c)
       \/ RaceReturnIndex(c)

SpecRace == InitRace /\ [][NextRace]_vars

\* A call a request made to the service failed for a reason of its own: no
\* API key, or an error of list_indexes or of create_index for a new name.
ServiceFailed ==
    \E c \in Callers :
       callerPc[c] \in {"raised: api key", "raised: list_indexes", "raised: create_index"}

\* C27: when two requests run get_pinecone_index at the same time for a name
\* the service does not hold, at most one create_index call is issued for
\* the name and no request ends in an error (the service itself not failing).
C27_OneCreateForConcurrentCallers ==
    ~ServiceFailed =>
        /\ Len(createLog) <= 1
        /\ \A c \in Callers : callerPc[c] # "raised: already exists"
====
